---- MODULE Spec2Model ----
(***************************************************************************)
(* Recurring-date resolution of the WoW event backend.                     *)
(*                                                                         *)
(*   calculateRecurringDates, analyzeEventImage (post-processing of the    *)
(*   vision model's JSON)      event-analyzer/server/services/eventVision.js*)
(*   getEffectiveExpirationDate                       CHANGELOG.md         *)
(*   GET /api/events           event-analyzer/server/routes/events.js      *)
(*                                                                         *)
(* JavaScript values are records tagged by k: "undef", "null", "bool",     *)
(* "num", "nan", "str", "arr", "fn", "obj".  A string is the sequence of its       *)
(* UTF-16 code units, each written as a one-token TLA+ string; the          *)
(* accented letters are written "e_acute", "a_acute", "A_ACUTE".            *)
(***************************************************************************)
EXTENDS Integers, Sequences, FiniteSets, TLC

VARIABLES
    responses,   \* the parsed JSON answers of the vision model, one per call
    now,         \* the clock read by `new Date()`: [year, month (0-indexed)]
    out,         \* per response: the outcome of the call made on it
    events,      \* rows of the events table
    clock,       \* the server clock of the listing route: [day, hour] (UTC)
    listing,     \* the last answer of GET /api/events
    expiry,      \* the last results of getEffectiveExpirationDate, per row
    invitation_codes,  \* rows of the invitation_codes table, the id is the index
    profiles,          \* rows of the profiles table, by user id
    auth_res,          \* the last answer of an /api/auth route, with its number
    saved_events,         \* rows of the saved_events table
    event_registrations,  \* rows of the event_registrations table, the id is the index
    attended_events,      \* rows of the attended_events table, the id is the index
    reqs,                 \* the requests of the registration and attendance routes
    migration,            \* the run of POST /api/storage/migrate-event-images
    extraction_jobs,      \* rows of the extraction_jobs table, the id is the index
    handlers,             \* the background handlers of /api/extraction-jobs
    loop                  \* a month loop of calculateRecurringDates, step by step

authVars == <<invitation_codes, profiles, auth_res>>

attVars == <<saved_events, event_registrations, attended_events, reqs>>

jobVars == <<extraction_jobs, handlers>>

extVars == <<attVars, migration, jobVars, loop>>

vars == <<responses, now, out, events, clock, listing, expiry, authVars, extVars>>

-----------------------------------------------------------------------------
(* JavaScript values *)

Undefined == [k |-> "undef"]
Null == [k |-> "null"]
NaN == [k |-> "nan"]
True == [k |-> "bool", b |-> TRUE]
False == [k |-> "bool", b |-> FALSE]
Num(n) == [k |-> "num", n |-> n]
Str(s) == [k |-> "str", s |-> s]
Arr(a) == [k |-> "arr", a |-> a]
ObjectFn == [k |-> "fn"]

\* ToBoolean
Truthy(v) ==
    CASE v.k = "bool" -> v.b
      [] v.k = "num" -> v.n # 0
      [] v.k = "str" -> v.s # <<>>
      [] v.k \in {"arr", "fn", "obj"} -> TRUE
      [] OTHER -> FALSE

IsNum(v) == v.k = "num"

\* a < b, a <= b, a === b on numbers: any comparison with NaN is false
JsLt(a, b) == IsNum(a) /\ IsNum(b) /\ a.n < b.n
JsLe(a, b) == IsNum(a) /\ IsNum(b) /\ a.n <= b.n
JsStrictEq(a, b) == IsNum(a) /\ IsNum(b) /\ a.n = b.n
\* a + n for an integer literal n (undefined + n and NaN + n are NaN)
JsPlus(a, n) == IF IsNum(a) THEN Num(a.n + n) ELSE NaN

-----------------------------------------------------------------------------
(* Strings *)

\* The code units the model uses, in ascending order of their code.
Alphabet ==
    <<" ", "-", "/", "0", "1", "2", "3", "4", "5", "6", "7", "8", "9",
      "A", "B", "D", "M", "N", "O", "S", "V",
      "a", "b", "c", "d", "e", "f", "g", "i", "j", "l", "m", "n", "o", "p",
      "r", "s", "t", "u", "v", "x", "y", "z",
      "A_ACUTE", "a_acute", "e_acute">>

CodeOf == [c \in {Alphabet[i] : i \in DOMAIN Alphabet} |->
             CHOOSE i \in DOMAIN Alphabet : Alphabet[i] = c]

Digits == <<"0", "1", "2", "3", "4", "5", "6", "7", "8", "9">>
DigitSet == {Digits[i] : i \in DOMAIN Digits}
DigitValue(c) == (CHOOSE i \in DOMAIN Digits : Digits[i] = c) - 1

Front(s) == SubSeq(s, 1, Len(s) - 1)
Last(s) == s[Len(s)]

\* s < t in code-unit order (the order of the default Array.prototype.sort
\* and of the relational operators on strings)
RECURSIVE StrLess(_, _)
StrLess(s, t) ==
    IF t = <<>> THEN FALSE
    ELSE IF s = <<>> THEN TRUE
    ELSE IF Head(s) = Head(t) THEN StrLess(Tail(s), Tail(t))
    ELSE CodeOf[Head(s)] < CodeOf[Head(t)]

StrGe(s, t) == ~StrLess(s, t)

\* Array.prototype.sort() without comparator, on an array of strings
RECURSIVE InsertSorted(_, _)
InsertSorted(t, x) ==
    IF t = <<>> \/ ~StrLess(x, Last(t)) THEN Append(t, x)
    ELSE Append(InsertSorted(Front(t), x), Last(t))

RECURSIVE ArraySort(_)
ArraySort(s) ==
    IF s = <<>> THEN <<>> ELSE InsertSorted(ArraySort(Front(s)), Last(s))

\* String.prototype.split(sep) for a one-unit separator
RECURSIVE Split(_, _)
Split(s, sep) ==
    IF \A i \in DOMAIN s : s[i] # sep THEN <<s>>
    ELSE LET i == CHOOSE j \in DOMAIN s :
                     s[j] = sep /\ \A h \in 1..(j - 1) : s[h] # sep
         IN <<SubSeq(s, 1, i - 1)>> \o Split(SubSeq(s, i + 1, Len(s)), sep)

\* String.prototype.trim()
RECURSIVE Trim(_)
Trim(s) ==
    IF s = <<>> THEN s
    ELSE IF Head(s) = " " THEN Trim(Tail(s))
    ELSE IF Last(s) = " " THEN Trim(Front(s))
    ELSE s

\* String.prototype.toLowerCase()
LowerOf(c) ==
    CASE c = "A" -> "a" [] c = "B" -> "b" [] c = "D" -> "d" [] c = "M" -> "m"
      [] c = "N" -> "n"
      [] c = "O" -> "o" [] c = "S" -> "s" [] c = "V" -> "v"
      [] c = "A_ACUTE" -> "a_acute"
      [] OTHER -> c
ToLowerCase(s) == [i \in DOMAIN s |-> LowerOf(s[i])]

\* Number(string): decimal digits only in this alphabet; "" and blanks are 0,
\* anything else is NaN.
RECURSIVE DigitsValue(_)
DigitsValue(s) ==
    IF s = <<>> THEN 0 ELSE 10 * DigitsValue(Front(s)) + DigitValue(Last(s))

ToNumber(s) ==
    LET t == Trim(s)
    IN IF \A i \in DOMAIN t : t[i] \in DigitSet THEN Num(DigitsValue(t)) ELSE NaN

\* String(n) for an integer n
RECURSIVE NatToString(_)
NatToString(n) ==
    IF n < 10 THEN <<Digits[n + 1]>>
    ELSE NatToString(n \div 10) \o <<Digits[(n % 10) + 1]>>

IntToString(n) == IF n < 0 THEN <<"-">> \o NatToString(0 - n) ELSE NatToString(n)

\* String(v) of a value that a destructured `.map(Number)` can yield
JsString(v) ==
    CASE v.k = "num" -> IntToString(v.n)
      [] v.k = "nan" -> <<"N", "a", "N">>
      [] v.k = "undef" -> <<"u", "n", "d", "e", "f", "i", "n", "e", "d">>

\* String.prototype.padStart(width, "0")
RECURSIVE PadStart(_, _)
PadStart(s, width) == IF Len(s) >= width THEN s ELSE PadStart(<<"0">> \o s, width)

-----------------------------------------------------------------------------
(* Date: `new Date(year, month, day)` in local time and its getters.  A    *)
(* Date is its day number since 1970-01-01, or Invalid Date.               *)

InvalidDate == [k |-> "invalid"]

\* Day number of the civil date (y, m, d), m in 1..12, d any integer.
DaysFromCivil(y, m, d) ==
    LET yy == IF m <= 2 THEN y - 1 ELSE y
        era == yy \div 400
        yoe == yy - era * 400
        mp == IF m > 2 THEN m - 3 ELSE m + 9
        doy == (153 * mp + 2) \div 5 + d - 1
        doe == yoe * 365 + yoe \div 4 - yoe \div 100 + doy
    IN era * 146097 + doe - 719468

\* The civil date [year, month (1..12), day] of a day number.
CivilFromDays(z) ==
    LET zz == z + 719468
        era == zz \div 146097
        doe == zz - era * 146097
        yoe == (doe - doe \div 1460 + doe \div 36524 - doe \div 146096) \div 365
        doy == doe - (365 * yoe + yoe \div 4 - yoe \div 100)
        mp == (5 * doy + 2) \div 153
        d == doy - (153 * mp + 2) \div 5 + 1
        m == IF mp < 10 THEN mp + 3 ELSE mp - 9
        y == yoe + era * 400
    IN [year |-> IF m <= 2 THEN y + 1 ELSE y, month |-> m, day |-> d]

\* new Date(year, month, day): a year 0..99 means 1900 + year, a month outside
\* 0..11 carries into the year, a day outside the month carries into the month.
JsDate(year, month, day) ==
    IF ~(IsNum(year) /\ IsNum(month) /\ IsNum(day)) THEN InvalidDate
    ELSE LET yr == IF year.n \in 0..99 THEN 1900 + year.n ELSE year.n
             ym == yr + (month.n \div 12)
             mn == month.n % 12
         IN [k |-> "date", t |-> DaysFromCivil(ym, mn + 1, 1) + day.n - 1]

GetFullYear(d) == IF d.k = "date" THEN Num(CivilFromDays(d.t).year) ELSE NaN
GetMonth(d) == IF d.k = "date" THEN Num(CivilFromDays(d.t).month - 1) ELSE NaN
GetDate(d) == IF d.k = "date" THEN Num(CivilFromDays(d.t).day) ELSE NaN
\* 1970-01-01 was a Thursday (4)
GetDay(d) == IF d.k = "date" THEN Num((d.t + 4) % 7) ELSE NaN

-----------------------------------------------------------------------------
(* eventVision.js: DAY_NAME_TO_INDEX and calculateRecurringDates *)

\* mutant: the table without the unaccented aliases
DAY_NAME_TO_INDEX_AccentedOnly ==
    (<<"d", "o", "m", "i", "n", "g", "o">> :> 0)
    @@ (<<"l", "u", "n", "e", "s">> :> 1)
    @@ (<<"m", "a", "r", "t", "e", "s">> :> 2)
    @@ (<<"m", "i", "e_acute", "r", "c", "o", "l", "e", "s">> :> 3)
    @@ (<<"j", "u", "e", "v", "e", "s">> :> 4)
    @@ (<<"v", "i", "e", "r", "n", "e", "s">> :> 5)
    @@ (<<"s", "a_acute", "b", "a", "d", "o">> :> 6)

\* lines 6-16
DAY_NAME_TO_INDEX ==
    (<<"d", "o", "m", "i", "n", "g", "o">> :> 0)
    @@ (<<"l", "u", "n", "e", "s">> :> 1)
    @@ (<<"m", "a", "r", "t", "e", "s">> :> 2)
    @@ (<<"m", "i", "e_acute", "r", "c", "o", "l", "e", "s">> :> 3)
    @@ (<<"m", "i", "e", "r", "c", "o", "l", "e", "s">> :> 3)
    @@ (<<"j", "u", "e", "v", "e", "s">> :> 4)
    @@ (<<"v", "i", "e", "r", "n", "e", "s">> :> 5)
    @@ (<<"s", "a_acute", "b", "a", "d", "o">> :> 6)
    @@ (<<"s", "a", "b", "a", "d", "o">> :> 6)

\* DAY_NAME_TO_INDEX[d]: an own key, a key inherited from Object.prototype
\* (a function, not undefined), or undefined
LookupDayName(d) ==
    IF d \in DOMAIN DAY_NAME_TO_INDEX THEN Num(DAY_NAME_TO_INDEX[d])
    ELSE IF d = <<"c", "o", "n", "s", "t", "r", "u", "c", "t", "o", "r">> THEN ObjectFn
    ELSE Undefined

\* `const [y, m] = s.split('-').map(Number)` and the 0-indexed month m - 1
ParseYearMonth(s) ==
    LET parts == Split(s, "-")
        y == ToNumber(parts[1])
        m == IF Len(parts) >= 2 THEN ToNumber(parts[2]) ELSE Undefined
    IN [year |-> y, month |-> JsPlus(m, -1)]

\* mutant: an absent end is defaulted from the clock, like the start
MonthRange_EndFromClock(analysis, clk) ==
    LET current == [year |-> Num(clk.year), month |-> Num(clk.month)]
        start == IF Truthy(analysis.recurring_month_start)
                 THEN ParseYearMonth(analysis.recurring_month_start.s)
                 ELSE current
        end == IF Truthy(analysis.recurring_month_end)
               THEN ParseYearMonth(analysis.recurring_month_end.s)
               ELSE current
    IN [startYear |-> start.year, startMonth |-> start.month,
        endYear |-> end.year, endMonth |-> end.month]

\* mutant: the end year is the clock's year whatever the guess supplies
MonthRange_EndYearFromClock(analysis, clk) ==
    LET start == IF Truthy(analysis.recurring_month_start)
                 THEN ParseYearMonth(analysis.recurring_month_start.s)
                 ELSE [year |-> Num(clk.year), month |-> Num(clk.month)]
        end == IF Truthy(analysis.recurring_month_end)
               THEN [year |-> Num(clk.year),
                     month |-> ParseYearMonth(analysis.recurring_month_end.s).month]
               ELSE start
    IN [startYear |-> start.year, startMonth |-> start.month,
        endYear |-> end.year, endMonth |-> end.month]

\* lines 26-49: the month range, defaulted from the clock and from the start
MonthRange(analysis, clk) ==
    LET start == IF Truthy(analysis.recurring_month_start)
                 THEN ParseYearMonth(analysis.recurring_month_start.s)
                 ELSE [year |-> Num(clk.year), month |-> Num(clk.month)]
        end == IF Truthy(analysis.recurring_month_end)
               THEN ParseYearMonth(analysis.recurring_month_end.s)
               ELSE start
    IN [startYear |-> start.year, startMonth |-> start.month,
        endYear |-> end.year, endMonth |-> end.month]

\* line 55
RawDays(analysis) ==
    IF Truthy(analysis.recurring_days_of_week) THEN analysis.recurring_days_of_week
    ELSE analysis.recurring_day_of_week

\* lines 56-58
DayNames(rawDays) ==
    IF rawDays.k = "arr"
    THEN [i \in DOMAIN rawDays.a |-> Trim(ToLowerCase(rawDays.a[i].s))]
    ELSE IF Truthy(rawDays) THEN <<Trim(ToLowerCase(rawDays.s))>>
    ELSE <<>>

\* line 59: the looked-up values that are not undefined
DayIndices(dayNames) ==
    SelectSeq([i \in DOMAIN dayNames |-> LookupDayName(dayNames[i])],
              LAMBDA v : v # Undefined)

\* lines 34 and 44: `.split` on a truthy month bound that is no string raises
\* a TypeError
MonthBoundThrows(analysis) ==
    \/ /\ Truthy(analysis.recurring_month_start)
       /\ analysis.recurring_month_start.k # "str"
    \/ /\ Truthy(analysis.recurring_month_end)
       /\ analysis.recurring_month_end.k # "str"

\* line 57: `.toLowerCase` on a weekday name that is no string raises a
\* TypeError
DayNameThrows(analysis) ==
    LET rawDays == RawDays(analysis)
    IN \/ /\ rawDays.k = "arr"
          /\ \E i \in DOMAIN rawDays.a : rawDays.a[i].k # "str"
       \/ /\ rawDays.k # "arr"
          /\ Truthy(rawDays)
          /\ rawDays.k # "str"

ThrowsTypeError(analysis) == MonthBoundThrows(analysis) \/ DayNameThrows(analysis)

NoRange == [k |-> "none"]

\* startYear, startMonth, endYear, endMonth as they stand after line 49, when
\* the call gets that far
ResolvedRange(analysis, clk) ==
    IF ~Truthy(analysis.is_recurring) \/ MonthBoundThrows(analysis) THEN NoRange
    ELSE [k |-> "range", r |-> MonthRange(analysis, clk)]

\* mutant: the end month is excluded (month < endMonth)
LoopCond_ExclusiveEnd(year, month, endYear, endMonth) ==
    JsLt(year, endYear) \/ (JsStrictEq(year, endYear) /\ JsLt(month, endMonth))

\* the loop condition of lines 65 and 90
LoopCond(year, month, endYear, endMonth) ==
    JsLt(year, endYear) \/ (JsStrictEq(year, endYear) /\ JsLe(month, endMonth))

\* mutant: after December the month restarts and the year stays
NextMonth_SameYear(year, month) ==
    LET m == JsPlus(month, 1)
    IN IF JsLt(Num(11), m) THEN [year |-> year, month |-> Num(0)]
       ELSE [year |-> year, month |-> m]

\* lines 77-78 and 99-100
NextMonth(year, month) ==
    LET m == JsPlus(month, 1)
    IN IF JsLt(Num(11), m) THEN [year |-> JsPlus(year, 1), month |-> Num(0)]
       ELSE [year |-> year, month |-> m]

\* new Date(year, month + 1, 0).getDate()
DaysInMonth(year, month) == GetDate(JsDate(year, JsPlus(month, 1), Num(0)))

\* `${yyyy}-${mm}-${dd}`
DateString(yyyy, mm, dd) == yyyy \o <<"-">> \o mm \o <<"-">> \o dd

\* lines 66-75: the dates one pass of the weekday loop pushes
WeekdayBody(year, month, dayIndices) ==
    LET daysInMonth == DaysInMonth(year, month)
        days == [day \in 1..(IF IsNum(daysInMonth) THEN daysInMonth.n ELSE 0) |-> day]
        hit(day) == \E i \in DOMAIN dayIndices :
                       dayIndices[i] = GetDay(JsDate(year, month, Num(day)))
        str(day) == LET d == JsDate(year, month, Num(day))
                    IN DateString(JsString(GetFullYear(d)),
                                  PadStart(JsString(JsPlus(GetMonth(d), 1)), 2),
                                  PadStart(JsString(GetDate(d)), 2))
        hits == SelectSeq(days, hit)
    IN [i \in DOMAIN hits |-> str(hits[i])]

\* mutant: the day is checked against 31, not against the month's length
SpecificBody_NoMonthLength(year, month, specificDays) ==
    LET keep(day) == day >= 1 /\ day <= 31
        str(day) == DateString(JsString(year),
                               PadStart(JsString(JsPlus(month, 1)), 2),
                               PadStart(IntToString(day), 2))
    IN [i \in DOMAIN SelectSeq(specificDays, keep) |->
            str(SelectSeq(specificDays, keep)[i])]

\* lines 91-98: the dates one pass of the specific-day loop pushes
SpecificBody(year, month, specificDays) ==
    LET daysInMonth == DaysInMonth(year, month)
        keep(day) == day >= 1 /\ JsLe(Num(day), daysInMonth)
        str(day) == DateString(JsString(year),
                               PadStart(JsString(JsPlus(month, 1)), 2),
                               PadStart(IntToString(day), 2))
    IN [i \in DOMAIN SelectSeq(specificDays, keep) |->
            str(SelectSeq(specificDays, keep)[i])]

Returned(dates) == [st |-> "returned", dates |-> dates]
Thrown == [st |-> "thrown"]
\* the loop never exits: its condition holds and nothing it reads changes
Hung == [st |-> "hung"]

\* lines 65-79: the while loop; with a NaN month and year < endYear, month++
\* stays NaN, `month > 11` is false and the year never advances
RECURSIVE WeekdayLoop(_, _, _, _, _)
WeekdayLoop(year, month, endYear, endMonth, dayIndices) ==
    IF ~LoopCond(year, month, endYear, endMonth) THEN Returned(<<>>)
    ELSE IF ~IsNum(month) THEN Hung
    ELSE LET nxt == NextMonth(year, month)
             rest == WeekdayLoop(nxt.year, nxt.month, endYear, endMonth, dayIndices)
         IN IF rest.st = "hung" THEN Hung
            ELSE Returned(WeekdayBody(year, month, dayIndices) \o rest.dates)

\* lines 90-101
RECURSIVE SpecificLoop(_, _, _, _, _)
SpecificLoop(year, month, endYear, endMonth, specificDays) ==
    IF ~LoopCond(year, month, endYear, endMonth) THEN Returned(<<>>)
    ELSE IF ~IsNum(month) THEN Hung
    ELSE LET nxt == NextMonth(year, month)
             rest == SpecificLoop(nxt.year, nxt.month, endYear, endMonth, specificDays)
         IN IF rest.st = "hung" THEN Hung
            ELSE Returned(SpecificBody(year, month, specificDays) \o rest.dates)

\* lines 61-82: Case 1, sorted at the end
WeekdayCase(r, dayIndices) ==
    IF Len(dayIndices) > 0
    THEN LET w == WeekdayLoop(r.startYear, r.startMonth, r.endYear, r.endMonth,
                              dayIndices)
         IN IF w.st = "hung" THEN Hung ELSE Returned(ArraySort(w.dates))
    ELSE Returned(<<>>)

\* mutant: Case 2 runs whatever Case 1 pushed
SpecificCaseRuns_Always(specificDays, dates) ==
    specificDays.k = "arr" /\ Len(specificDays.a) > 0

\* line 86: Case 2 runs only while `dates` is still empty
SpecificCaseRuns(specificDays, dates) ==
    specificDays.k = "arr" /\ Len(specificDays.a) > 0 /\ Len(dates) = 0

\* function calculateRecurringDates(analysis), lines 23-106
calculateRecurringDates(analysis, clk) ==
    IF ~Truthy(analysis.is_recurring) THEN Returned(<<>>)
    ELSE IF ThrowsTypeError(analysis) THEN Thrown
    ELSE LET r == MonthRange(analysis, clk)
             case1 == WeekdayCase(r, DayIndices(DayNames(RawDays(analysis))))
         IN IF case1.st = "hung" THEN Hung
            ELSE IF SpecificCaseRuns(analysis.recurring_specific_days, case1.dates)
            THEN LET case2 == SpecificLoop(r.startYear, r.startMonth, r.endYear,
                                           r.endMonth,
                                           analysis.recurring_specific_days.a)
                 IN IF case2.st = "hung" THEN Hung
                    ELSE Returned(case1.dates \o case2.dates)
            ELSE case1

-----------------------------------------------------------------------------
(* eventVision.js: analyzeEventImage, the post-processing of the parsed    *)
(* JSON (lines 346-397)                                                    *)

NoEspecificado ==
    Str(<<"N", "o", " ", "e", "s", "p", "e", "c", "i", "f", "i", "c", "a", "d", "o">>)

\* lines 347-356: a missing `date` key is filled with 'No especificado'
WithRequiredFields(analysis) ==
    IF analysis.date = Undefined THEN [analysis EXCEPT !.date = NoEspecificado]
    ELSE analysis

\* line 368
WithIsRecurringDefault(analysis) ==
    IF analysis.is_recurring = Undefined THEN [analysis EXCEPT !.is_recurring = False]
    ELSE analysis

\* line 378
BaseDate(analysis) ==
    IF Truthy(analysis.date) /\ analysis.date # NoEspecificado THEN analysis.date
    ELSE Null

\* lines 380-383: one string per day number, in the base date's year and month
ExplicitDates(baseDate, specificDays) ==
    LET parts == Split(baseDate, "-")
        y == ToNumber(parts[1])
        m == IF Len(parts) >= 2 THEN ToNumber(parts[2]) ELSE Undefined
    IN ArraySort([i \in DOMAIN specificDays |->
                     DateString(JsString(y), PadStart(JsString(m), 2),
                                PadStart(IntToString(specificDays[i]), 2))])

\* mutant: the explicit branch asks for more than two day numbers
IsExplicitMultiDay_MoreThanTwo(analysis) ==
    /\ analysis.recurring_specific_days.k = "arr"
    /\ Len(analysis.recurring_specific_days.a) > 2

\* line 375
IsExplicitMultiDay(analysis) ==
    /\ analysis.recurring_specific_days.k = "arr"
    /\ Len(analysis.recurring_specific_days.a) > 1

\* mutant: the last branch leaves the recurring_dates of the answer in place
RecurringDatesOf_KeepsAnswer(analysis, clk) ==
    IF Truthy(analysis.is_recurring) THEN calculateRecurringDates(analysis, clk)
    ELSE IF IsExplicitMultiDay(analysis)
    THEN LET baseDate == BaseDate(analysis)
         IN IF Truthy(baseDate)
            THEN IF baseDate.k # "str" THEN Thrown
                 ELSE Returned(ExplicitDates(baseDate.s,
                                             analysis.recurring_specific_days.a))
            ELSE Returned(<<>>)
    ELSE Returned(analysis.recurring_dates.a)

\* lines 371-390: the value assigned to analysis.recurring_dates
RecurringDatesOf(analysis, clk) ==
    IF Truthy(analysis.is_recurring) THEN calculateRecurringDates(analysis, clk)
    ELSE IF IsExplicitMultiDay(analysis)
    THEN LET baseDate == BaseDate(analysis)
         IN IF Truthy(baseDate)
            THEN IF baseDate.k # "str" THEN Thrown
                 ELSE Returned(ExplicitDates(baseDate.s,
                                             analysis.recurring_specific_days.a))
            ELSE Returned(<<>>)
    ELSE Returned(<<>>)

\* analyzeEventImage from the parsed JSON on: the outcome, carrying the
\* recurring_dates of the returned analysis
analyzeEventImage(analysis, clk) ==
    RecurringDatesOf(WithIsRecurringDefault(WithRequiredFields(analysis)), clk)

-----------------------------------------------------------------------------
(* The inputs: answers of the vision model *)

\* the longest recurring_specific_days list drawn
MaxDays == 2

S_2024_02 == <<"2", "0", "2", "4", "-", "0", "2">>
S_2024_04 == <<"2", "0", "2", "4", "-", "0", "4">>
S_2024_01 == <<"2", "0", "2", "4", "-", "0", "1">>
S_2023_12 == <<"2", "0", "2", "3", "-", "1", "2">>
S_2024_13 == <<"2", "0", "2", "4", "-", "1", "3">>
S_2023 == <<"2", "0", "2", "3">>
S_2024_02_13 == <<"2", "0", "2", "4", "-", "0", "2", "-", "1", "3">>
S_13_02_2024 == <<"1", "3", "/", "0", "2", "/", "2", "0", "2", "4">>
S_1999_01_01 == <<"1", "9", "9", "9", "-", "0", "1", "-", "0", "1">>
S_viernes == <<"v", "i", "e", "r", "n", "e", "s">>
S_Viernes == <<"V", "i", "e", "r", "n", "e", "s">>
S_SABADO == <<" ", "S", "A_ACUTE", "B", "A", "D", "O", " ">>
S_lunes == <<"l", "u", "n", "e", "s">>
S_xyz == <<"x", "y", "z">>
S_domingo == <<"d", "o", "m", "i", "n", "g", "o">>
S_martes == <<"m", "a", "r", "t", "e", "s">>
S_miercoles == <<"m", "i", "e", "r", "c", "o", "l", "e", "s">>
S_miercoles_acute == <<"m", "i", "e_acute", "r", "c", "o", "l", "e", "s">>
S_Miercoles_acute == <<" ", "M", "i", "e_acute", "r", "c", "o", "l", "e", "s">>
S_jueves == <<"j", "u", "e", "v", "e", "s">>
S_sabado == <<"s", "a", "b", "a", "d", "o">>
S_sabado_acute == <<"s", "a_acute", "b", "a", "d", "o">>
S_constructor == <<"c", "o", "n", "s", "t", "r", "u", "c", "t", "o", "r">>

MonthStartPool ==
    {Null, Str(S_2024_02), Str(S_2023_12), Str(S_2024_13), Str(S_2023), Num(202402)}
MonthEndPool == {Null, Str(S_2024_04), Str(S_2024_01)}
DaysOfWeekPool ==
    {Null, Arr(<<>>), Str(S_viernes), Arr(<<Str(S_Viernes)>>),
     Arr(<<Str(S_viernes), Str(S_SABADO)>>), Arr(<<Str(S_xyz)>>),
     Arr(<<Str(S_viernes), Num(5)>>)}
DayOfWeekPool == {Null, Str(S_lunes)}
DayPool == {0, 5, 29, 31}
SpecificDaysPool ==
    {Null} \cup {Arr(s) : s \in UNION {[1..n -> DayPool] : n \in 0..MaxDays}}
DatePool ==
    {Undefined, Null, NoEspecificado, Str(S_2024_02_13), Str(S_13_02_2024),
     Num(20240213)}
\* February 2023 (28 days) and February 2024 (29 days)
Clocks == {[year |-> 2023, month |-> 1], [year |-> 2024, month |-> 1]}
LlmDates == Arr(<<S_1999_01_01>>)

\* date lists the vision model may have computed itself
LlmDatesPool == {Arr(<<>>), LlmDates, Arr(<<S_2024_02_13>>)}

Guess(rec, date, ms, me, dow, legacy, days, llm) ==
    [is_recurring |-> rec, date |-> date,
     recurring_month_start |-> ms, recurring_month_end |-> me,
     recurring_days_of_week |-> dow, recurring_day_of_week |-> legacy,
     recurring_specific_days |-> days, recurring_dates |-> llm]

\* answers flagged recurring; the legacy field is varied where line 55 can reach it
RecurringGuesses ==
    {Guess(True, Str(S_2024_02_13), ms, me, dl[1], dl[2], days, LlmDates) :
        ms \in MonthStartPool, me \in MonthEndPool,
        dl \in {x \in DaysOfWeekPool \X DayOfWeekPool :
                   x[2] = Null \/ x[1] \in {Null, Arr(<<>>)}},
        days \in SpecificDaysPool}

\* answers not flagged recurring, or without the flag
NonRecurringGuesses ==
    {Guess(rec, date, mm, mm, dow, Null, days, LlmDates) :
        rec \in {False, Undefined}, date \in DatePool,
        mm \in {Null, Str(S_2024_02)},
        dow \in {Arr(<<>>), Arr(<<Str(S_viernes)>>)},
        days \in SpecificDaysPool}

\* pairs of answers that differ in their recurring_dates alone
TwinGuesses ==
    {<<Guess(rec, date, ms, Null, dow, Null, days, ll[1]),
       Guess(rec, date, ms, Null, dow, Null, days, ll[2])>> :
        rec \in {True, False}, date \in {Null, Str(S_2024_02_13)},
        ms \in {Null, Str(S_2024_02)},
        dow \in {Arr(<<>>), Arr(<<Str(S_viernes)>>)},
        days \in SpecificDaysPool,
        ll \in {x \in LlmDatesPool \X LlmDatesPool : x[1] # x[2]}}

\* the spellings of the weekday names: every key of the table, and keys in
\* another letter case or between blanks
SpellingPool ==
    {S_domingo, S_lunes, S_martes, S_miercoles, S_miercoles_acute,
     S_Miercoles_acute, S_jueves, S_viernes, S_Viernes, S_sabado, S_sabado_acute,
     S_SABADO}

\* weekday fields in those spellings: one name, as a list or as a string, and
\* two spellings of one name
VocabularyPool ==
    {Arr(<<Str(n)>>) : n \in SpellingPool}
    \cup {Str(S_sabado), Str(S_Miercoles_acute),
          Arr(<<Str(S_miercoles), Str(S_Miercoles_acute)>>)}

\* answers flagged recurring whose weekday names are spelled in every way
VocabularyGuesses ==
    {Guess(True, Str(S_2024_02_13), Str(S_2024_02), me, dow, Null, days, LlmDates) :
        me \in {Null, Str(S_2024_04)}, dow \in VocabularyPool,
        days \in {Null, Arr(<<5>>)}}

\* lists holding names the table does not have, one of them a property every
\* object inherits
UnrecognisedPool ==
    {Arr(<<Str(S_viernes), Str(S_xyz)>>), Arr(<<Str(S_xyz), Str(S_lunes)>>),
     Arr(<<Str(S_constructor)>>), Arr(<<Str(S_viernes), Str(S_constructor)>>)}

\* answers flagged recurring with such lists
UnrecognisedGuesses ==
    {Guess(True, Str(S_2024_02_13), ms, me, dow, Null, days, LlmDates) :
        ms \in {Str(S_2024_02), Str(S_2023)}, me \in {Null, Str(S_2024_04)},
        dow \in UnrecognisedPool, days \in {Null, Arr(<<5>>)}}

Guesses ==
    RecurringGuesses \cup NonRecurringGuesses \cup VocabularyGuesses
    \cup UnrecognisedGuesses

-----------------------------------------------------------------------------
(* The calls *)

NotCalled == [fn |-> "none"]

NoAnswer == [seq |-> 0, route |-> "none"]

AuthIdle ==
    /\ invitation_codes = <<>>
    /\ profiles = <<>>
    /\ auth_res = NoAnswer

ExtIdle ==
    /\ saved_events = {}
    /\ event_registrations = <<>>
    /\ attended_events = <<>>
    /\ reqs = <<>>
    /\ migration = [pc |-> "idle"]
    /\ extraction_jobs = <<>>
    /\ handlers = <<>>
    /\ loop = [pc |-> "idle"]

ListingIdle ==
    /\ events = <<>>
    /\ clock = [day |-> 0, hour |-> 0]
    /\ listing = Null
    /\ expiry = <<>>

\* the second clock where the range is the clock's month alone
Init ==
    /\ responses \in {<<g>> : g \in Guesses}
    /\ now \in {c \in Clocks :
                  \/ c.year = 2024
                  \/ /\ ~Truthy(responses[1].recurring_month_start)
                     /\ ~Truthy(responses[1].recurring_month_end)}
    /\ out = <<NotCalled>>
    /\ ListingIdle
    /\ AuthIdle
    /\ ExtIdle

\* two answers for the same flyer
InitTwin ==
    /\ responses \in TwinGuesses
    /\ now \in {c \in Clocks : c.year = 2024}
    /\ out = <<NotCalled, NotCalled>>
    /\ ListingIdle
    /\ AuthIdle
    /\ ExtIdle

\* a direct call calculateRecurringDates(responses[i])
CallCalculateRecurringDates(i) ==
    /\ out[i] = NotCalled
    /\ out' = [out EXCEPT ![i] = [fn |-> "calculateRecurringDates",
                                  at |-> now,
                                  range |-> ResolvedRange(responses[i], now),
                                  res |-> calculateRecurringDates(responses[i], now)]]
    /\ UNCHANGED <<responses, now, events, clock, listing, expiry, authVars, extVars>>

\* analyzeEventImage receives responses[i] from the vision model
CallAnalyzeEventImage(i) ==
    /\ out[i] = NotCalled
    /\ out' = [out EXCEPT ![i] = [fn |-> "analyzeEventImage",
                                  at |-> now,
                                  res |-> analyzeEventImage(responses[i], now)]]
    /\ UNCHANGED <<responses, now, events, clock, listing, expiry, authVars, extVars>>

Next ==
    \/ \E i \in DOMAIN responses : CallCalculateRecurringDates(i)
    \/ \E i \in DOMAIN responses : CallAnalyzeEventImage(i)

Spec == Init /\ [][Next]_vars

SpecTwin == InitTwin /\ [][Next]_vars

\* the months `new Date()` is read in: December 2023, February and April 2024
ClockInstants ==
    {[year |-> 2023, month |-> 11], [year |-> 2024, month |-> 1],
     [year |-> 2024, month |-> 3]}

\* answers flagged recurring, with and without month bounds
ClockGuesses ==
    {Guess(True, Str(S_2024_02_13), ms, me, dow, Null, days, LlmDates) :
        ms \in {Null, Str(S_2024_02), Str(S_2023_12)},
        me \in {Null, Str(S_2024_04)},
        dow \in {Arr(<<>>), Arr(<<Str(S_viernes)>>)},
        days \in {Null, Arr(<<5>>), Arr(<<29, 31>>)}}

\* one answer, handed to two calls
InitClocks ==
    /\ responses \in {<<g, g>> : g \in ClockGuesses}
    /\ now \in ClockInstants
    /\ out = <<NotCalled, NotCalled>>
    /\ ListingIdle
    /\ AuthIdle
    /\ ExtIdle

\* time passes between two calls: `new Date()` of line 26 reads another month
AdvanceClock ==
    /\ \E i \in DOMAIN out : out[i] = NotCalled
    /\ now' \in ClockInstants \ {now}
    /\ UNCHANGED <<responses, out, events, clock, listing, expiry, authVars, extVars>>

NextClocks == Next \/ AdvanceClock

SpecClocks == InitClocks /\ [][NextClocks]_vars

-----------------------------------------------------------------------------
(* CHANGELOG.md: getEffectiveExpirationDate; events.js: GET /api/events    *)

\* event.recurring_dates?.length
OptionalLength(v) == IF v.k = "arr" THEN Num(Len(v.a)) ELSE Undefined

\* [...].filter(d => d)
FilterTruthy(s) == SelectSeq(s, Truthy)

\* .sort((a, b) => a.localeCompare(b)) on date strings: digits and hyphens
\* collate in code-unit order
SortByLocaleCompare(s) == ArraySort([i \in DOMAIN s |-> s[i].s])

\* mutant: the first date of the sorted list is returned, not the last
getEffectiveExpirationDate_First(event) ==
    IF ~Truthy(event.date) THEN Null
    ELSE IF ~Truthy(event.is_recurring) \/ ~Truthy(OptionalLength(event.recurring_dates))
    THEN event.date
    ELSE LET allDates == SortByLocaleCompare(
                             FilterTruthy(<<event.date>> \o event.recurring_dates.a))
         IN IF Len(allDates) > 0 THEN Str(allDates[1]) ELSE event.date

\* mutant: the primary date is left out of the dates that are sorted
getEffectiveExpirationDate_WithoutPrimary(event) ==
    IF ~Truthy(event.date) THEN Null
    ELSE IF ~Truthy(event.is_recurring) \/ ~Truthy(OptionalLength(event.recurring_dates))
    THEN event.date
    ELSE LET allDates == SortByLocaleCompare(FilterTruthy(event.recurring_dates.a))
         IN IF Len(allDates) > 0 THEN Str(allDates[Len(allDates)]) ELSE event.date

\* CHANGELOG.md lines 104-118
getEffectiveExpirationDate(event) ==
    IF ~Truthy(event.date) THEN Null
    ELSE IF ~Truthy(event.is_recurring) \/ ~Truthy(OptionalLength(event.recurring_dates))
    THEN event.date
    ELSE LET allDates == SortByLocaleCompare(
                             FilterTruthy(<<event.date>> \o event.recurring_dates.a))
         IN IF Len(allDates) > 0 THEN Str(allDates[Len(allDates)]) ELSE event.date

\* events.js lines 106-109: the date, in UTC, of the instant six hours before
\* the clock (a server whose local time is UTC), as YYYY-MM-DD
TodayStr(clk) ==
    LET shifted == IF clk.hour - 6 < 0 THEN clk.day - 1 ELSE clk.day
        c == CivilFromDays(shifted)
    IN DateString(PadStart(IntToString(c.year), 4), PadStart(IntToString(c.month), 2),
                  PadStart(IntToString(c.day), 2))

\* events.js lines 131-134: the filter of GET /api/events
KeepsEvent(event, todayStr) ==
    IF ~Truthy(event.date) THEN TRUE ELSE StrGe(event.date.s, todayStr)

\* the longest events table drawn
MaxEvents == 2
\* the number of days the listing clock advances
MaxClockDays == 4

S_2026_02_09 == <<"2", "0", "2", "6", "-", "0", "2", "-", "0", "9">>
S_2026_02_10 == <<"2", "0", "2", "6", "-", "0", "2", "-", "1", "0">>
S_2026_02_11 == <<"2", "0", "2", "6", "-", "0", "2", "-", "1", "1">>
S_2026_02_12 == <<"2", "0", "2", "6", "-", "0", "2", "-", "1", "2">>

\* the clock starts on 2026-02-09, 03:00 UTC
ClockStartDay == DaysFromCivil(2026, 2, 9)

EventRow(date, rec, dates) ==
    [date |-> date, is_recurring |-> rec, recurring_dates |-> dates]

EventPool ==
    {EventRow(Null, False, Arr(<<>>)),
     EventRow(Str(S_2026_02_10), False, Arr(<<>>)),
     EventRow(Str(S_2026_02_10), False, Arr(<<Str(S_2026_02_12)>>)),
     EventRow(Str(S_2026_02_10), True, Null),
     EventRow(Str(S_2026_02_10), True, Arr(<<>>)),
     EventRow(Str(S_2026_02_10), True,
              Arr(<<Str(S_2026_02_10), Str(S_2026_02_11), Str(S_2026_02_12)>>)),
     EventRow(Str(S_2026_02_10), True, Arr(<<Str(S_2026_02_12), Str(S_2026_02_09)>>)),
     EventRow(Str(S_2026_02_10), True, Arr(<<Null, Str(S_2026_02_09)>>))}

EventTables == UNION {[1..n -> EventPool] : n \in 1..MaxEvents}

DatesIdle ==
    /\ responses = <<>>
    /\ now = [year |-> 2026, month |-> 1]
    /\ out = <<>>

InitListing ==
    /\ events \in EventTables
    /\ clock = [day |-> ClockStartDay, hour |-> 3]
    /\ listing = Null
    /\ expiry = <<>>
    /\ DatesIdle
    /\ AuthIdle
    /\ ExtIdle

\* GET /api/events, events.js lines 95-154
GetEvents ==
    /\ listing' = [todayStr |-> TodayStr(clock),
                   ids |-> {i \in DOMAIN events : KeepsEvent(events[i], TodayStr(clock))}]
    /\ UNCHANGED <<responses, now, out, events, clock, expiry, authVars, extVars>>

\* getEffectiveExpirationDate applied to every row
EffectiveExpirationDates ==
    /\ expiry' = [i \in DOMAIN events |-> getEffectiveExpirationDate(events[i])]
    /\ UNCHANGED <<responses, now, out, events, clock, listing, authVars, extVars>>

\* twelve hours pass
Tick ==
    /\ clock.day < ClockStartDay + MaxClockDays
    /\ clock' = IF clock.hour < 12 THEN [clock EXCEPT !.hour = @ + 12]
                ELSE [day |-> clock.day + 1, hour |-> clock.hour - 12]
    /\ UNCHANGED <<responses, now, out, events, listing, expiry, authVars, extVars>>

NextListing == GetEvents \/ EffectiveExpirationDates \/ Tick

SpecListing == InitListing /\ [][NextListing]_vars

-----------------------------------------------------------------------------
(* auth.js: POST /api/auth/validate-code and POST /api/auth/register.  A   *)
(* handler's queries touch disjoint columns of one row (register reads id, *)
(* user_type and credits and writes used, used_by, used_at, current_uses), *)
(* so a handler is one step.  The timestamps used_at and updated_at, and   *)
(* full_name and avatar_url, are left out of the rows.                     *)

\* String.prototype.toUpperCase()
UpperOf(c) ==
    CASE c = "a" -> "A" [] c = "b" -> "B" [] c = "d" -> "D" [] OTHER -> c
ToUpperCase(s) == [i \in DOMAIN s |-> UpperOf(s[i])]

\* the number of requests to /api/auth
MaxRequests == 3

S_ab == <<"a", "b">>
S_AB == <<"A", "B">>
S_BA == <<"B", "A">>
S_DD == <<"D", "D">>
S_Beta == <<"B", "e", "t", "a">>
S_Alpha == <<"A", "l", "p", "h", "a">>
S_u1 == <<"u", "1">>
S_u2 == <<"u", "2">>
S_mail == <<"m", "a", "i", "l">>

\* a timestamp: hours since 1970-01-01T00:00Z
Instant(clk) == clk.day * 24 + clk.hour

CodeRow(code, user_type, credits, max_uses, current_uses, expires_at) ==
    [code |-> code, user_type |-> user_type, credits |-> credits,
     max_uses |-> max_uses, current_uses |-> current_uses,
     expires_at |-> expires_at, used |-> False, used_by |-> Null]

\* rows of invitation_codes: without limits, for one use, used three times of
\* five, about to expire, used up, expired
CodeRowPool ==
    {CodeRow(S_AB, Null, Null, Null, Num(0), Null),
     CodeRow(S_AB, Str(S_Alpha), Num(500), Num(1), Num(0), Null),
     CodeRow(S_AB, Str(S_Alpha), Num(500), Num(5), Num(3), Null),
     CodeRow(S_BA, Null, Num(0), Num(2), Num(0), Num(ClockStartDay * 24 + 24)),
     CodeRow(S_BA, Null, Num(500), Num(1), Num(1), Null),
     CodeRow(S_BA, Str(S_Alpha), Num(500), Null, Num(0), Num(ClockStartDay * 24 - 24))}

\* the table: one or two rows, no code twice
CodeTables ==
    {<<r>> : r \in CodeRowPool}
    \cup {<<r, s>> : r \in {x \in CodeRowPool : x.code = S_AB},
                     s \in {x \in CodeRowPool : x.code = S_BA}}

\* req.body.code, req.body.user_id, req.body.email
CodePool == {Undefined, Str(S_ab), Str(S_AB), Str(S_BA), Str(S_DD), Num(7)}
UserIdPool == {Undefined, Str(S_u1), Str(S_u2)}
EmailPool == {Undefined, Str(S_mail)}

\* .from('invitation_codes').select(...).eq('code', code).single(): the id of
\* the one row with that code, or 0 (data: null)
SingleByCode(code) ==
    LET hits == {i \in DOMAIN invitation_codes : invitation_codes[i].code = code}
    IN IF Cardinality(hits) = 1 THEN CHOOSE i \in hits : TRUE ELSE 0

\* a || b
JsOr(a, b) == IF Truthy(a) THEN a ELSE b

\* the answer to the next request; invCode is the row the handler found
Answer(route, status, invCode) ==
    [seq |-> auth_res.seq + 1, route |-> route, status |-> status,
     invCode |-> invCode]

\* auth.js lines 35 and 43
IsExpired(row, clk) ==
    Truthy(row.expires_at) /\ row.expires_at.n < Instant(clk)
IsUsedUp(row) ==
    Truthy(row.max_uses) /\ row.current_uses.n >= row.max_uses.n

\* router.post('/validate-code'), auth.js lines 9-68
PostValidateCode ==
    /\ auth_res.seq < MaxRequests
    /\ \E code \in CodePool :
          auth_res' =
             IF ~Truthy(code) THEN Answer("validate-code", 400, 0)
             ELSE IF code.k # "str" THEN Answer("validate-code", 500, 0)
             ELSE LET id == SingleByCode(ToUpperCase(code.s))
                  IN IF id = 0 THEN Answer("validate-code", 400, 0)
                     ELSE IF IsExpired(invitation_codes[id], clock)
                     THEN Answer("validate-code", 400, id)
                     ELSE IF IsUsedUp(invitation_codes[id])
                     THEN Answer("validate-code", 400, id)
                     ELSE Answer("validate-code", 200, id)
    /\ UNCHANGED <<responses, now, out, events, clock, listing, expiry,
                   invitation_codes, profiles, extVars>>

\* lines 86-99: codeData
CodeData(id) ==
    IF id = 0 THEN [user_type |-> Str(S_Beta), credits |-> Num(100)]
    ELSE [user_type |-> JsOr(invitation_codes[id].user_type, Str(S_Beta)),
          credits |-> JsOr(invitation_codes[id].credits, Num(100))]

\* lines 102-110: the update of the row with that id
MarkUsed(id, user_id) ==
    [invitation_codes EXCEPT ![id] = [@ EXCEPT !.used = True,
                                               !.used_by = user_id,
                                               !.current_uses = Num(1)]]

\* lines 115-128: the upsert on profiles
Upsert(user_id, email, codeData) ==
    [u \in DOMAIN profiles \cup {user_id.s} |->
        IF u = user_id.s
        THEN [id |-> user_id, email |-> email, role |-> "user",
              user_type |-> codeData.user_type, credits |-> codeData.credits]
        ELSE profiles[u]]

\* router.post('/register'), auth.js lines 74-150; upsertError is the error
\* the upsert may report
PostRegister ==
    /\ auth_res.seq < MaxRequests
    /\ \E user_id \in UserIdPool, email \in EmailPool, code \in CodePool,
          upsertError \in BOOLEAN :
          IF ~Truthy(user_id) \/ ~Truthy(email)
          THEN /\ auth_res' = Answer("register", 400, 0)
               /\ UNCHANGED <<invitation_codes, profiles>>
          ELSE IF Truthy(code) /\ code.k # "str"
          THEN /\ auth_res' = Answer("register", 500, 0)
               /\ UNCHANGED <<invitation_codes, profiles>>
          ELSE LET id == IF Truthy(code) THEN SingleByCode(ToUpperCase(code.s)) ELSE 0
               IN /\ invitation_codes' = IF id # 0 THEN MarkUsed(id, user_id)
                                         ELSE invitation_codes
                  /\ IF upsertError
                     THEN /\ auth_res' = Answer("register", 500, id)
                          /\ UNCHANGED profiles
                     ELSE /\ auth_res' = Answer("register", 200, id)
                          /\ profiles' = Upsert(user_id, email, CodeData(id))
    /\ UNCHANGED <<responses, now, out, events, clock, listing, expiry, extVars>>

InitAuth ==
    /\ invitation_codes \in CodeTables
    /\ profiles = <<>>
    /\ auth_res = NoAnswer
    /\ clock = [day |-> ClockStartDay, hour |-> 3]
    /\ events = <<>>
    /\ listing = Null
    /\ expiry = <<>>
    /\ DatesIdle
    /\ ExtIdle

NextAuth == PostValidateCode \/ PostRegister \/ Tick

SpecAuth == InitAuth /\ [][NextAuth]_vars

-----------------------------------------------------------------------------
(* The calendar the claims are stated against: Gregorian month lengths and *)
(* Zeller's congruence, independent of the Date arithmetic above.          *)

RefIsLeap(y) == (y % 4 = 0 /\ y % 100 # 0) \/ y % 400 = 0

RefDaysIn(y, m) ==
    IF m = 2 THEN (IF RefIsLeap(y) THEN 29 ELSE 28)
    ELSE IF m \in {4, 6, 9, 11} THEN 30 ELSE 31

\* weekday of (y, m, d), 0 = Sunday .. 6 = Saturday
RefWeekday(y, m, d) ==
    LET mz == IF m <= 2 THEN m + 12 ELSE m
        yz == IF m <= 2 THEN y - 1 ELSE y
        kk == yz % 100
        jj == yz \div 100
        h == (d + (13 * (mz + 1)) \div 5 + kk + kk \div 4 + jj \div 4 + 5 * jj) % 7
    IN (h + 6) % 7

RefTwoDigits(n) == <<Digits[(n \div 10) + 1], Digits[(n % 10) + 1]>>

\* YYYY-MM-DD of a date with a four-digit year
RefDateString(y, m, d) ==
    RefTwoDigits(y \div 100) \o RefTwoDigits(y % 100) \o <<"-">>
    \o RefTwoDigits(m) \o <<"-">> \o RefTwoDigits(d)

Absent(v) == v.k \in {"null", "undef"}

\* a "YYYY-MM" string with a month of the year
WellFormedMonth(v) ==
    /\ v.k = "str"
    /\ Len(v.s) = 7
    /\ v.s[5] = "-"
    /\ \A i \in {1, 2, 3, 4, 6, 7} : v.s[i] \in DigitSet
    /\ 10 * DigitValue(v.s[6]) + DigitValue(v.s[7]) \in 1..12

\* a "YYYY-MM-DD" string with a month of the year
WellFormedDate(v) ==
    /\ v.k = "str"
    /\ Len(v.s) = 10
    /\ v.s[5] = "-" /\ v.s[8] = "-"
    /\ \A i \in {1, 2, 3, 4, 6, 7, 9, 10} : v.s[i] \in DigitSet
    /\ 10 * DigitValue(v.s[6]) + DigitValue(v.s[7]) \in 1..12

RefYear(s) ==
    1000 * DigitValue(s[1]) + 100 * DigitValue(s[2]) + 10 * DigitValue(s[3])
    + DigitValue(s[4])
RefMonth(s) == 10 * DigitValue(s[6]) + DigitValue(s[7])

\* month bounds that are well-formed, or absent and defaulted
BoundsWellFormed(g) ==
    /\ Absent(g.recurring_month_start) \/ WellFormedMonth(g.recurring_month_start)
    /\ Absent(g.recurring_month_end) \/ WellFormedMonth(g.recurring_month_end)

RefStart(g, clk) ==
    IF Absent(g.recurring_month_start) THEN [y |-> clk.year, m |-> clk.month + 1]
    ELSE [y |-> RefYear(g.recurring_month_start.s),
          m |-> RefMonth(g.recurring_month_start.s)]

RefEnd(g, clk) ==
    IF Absent(g.recurring_month_end) THEN RefStart(g, clk)
    ELSE [y |-> RefYear(g.recurring_month_end.s),
          m |-> RefMonth(g.recurring_month_end.s)]

\* the months from monthStart through monthEnd
RefMonths(g, clk) ==
    LET s == RefStart(g, clk)
        e == RefEnd(g, clk)
    IN {ym \in (s.y..e.y) \X (1..12) :
           /\ s.y * 12 + s.m <= ym[1] * 12 + ym[2]
           /\ ym[1] * 12 + ym[2] <= e.y * 12 + e.m}

\* weekday names of the right type: a string, or a list of strings
NamesWellTyped(g) ==
    /\ \/ Absent(g.recurring_days_of_week)
       \/ g.recurring_days_of_week.k = "str"
       \/ /\ g.recurring_days_of_week.k = "arr"
          /\ \A i \in DOMAIN g.recurring_days_of_week.a :
                g.recurring_days_of_week.a[i].k = "str"
    /\ Absent(g.recurring_day_of_week) \/ g.recurring_day_of_week.k = "str"

\* the weekdays the recognised names stand for
RequestedWeekdays(g) ==
    LET idx == DayIndices(DayNames(RawDays(g)))
    IN {idx[i].n : i \in {j \in DOMAIN idx : idx[j].k = "num"}}

\* every date of the range whose weekday is requested
RefWeekdayDates(g, clk) ==
    {RefDateString(x[1], x[2], x[3]) :
        x \in {z \in {<<ym[1], ym[2], d>> : ym \in RefMonths(g, clk), d \in 1..31} :
                 /\ z[3] <= RefDaysIn(z[1], z[2])
                 /\ RefWeekday(z[1], z[2], z[3]) \in RequestedWeekdays(g)}}

RequestedDays(g) ==
    IF g.recurring_specific_days.k = "arr"
    THEN {g.recurring_specific_days.a[i] : i \in DOMAIN g.recurring_specific_days.a}
    ELSE {}

\* every requested day number that exists in its month, for each month of the range
RefSpecificDates(g, clk) ==
    {RefDateString(x[1], x[2], x[3]) :
        x \in {z \in {<<ym[1], ym[2], d>> : ym \in RefMonths(g, clk),
                                            d \in RequestedDays(g)} :
                 1 <= z[3] /\ z[3] <= RefDaysIn(z[1], z[2])}}

Range(s) == {s[i] : i \in DOMAIN s}

StrictlyAscending(s) == \A i \in 1..(Len(s) - 1) : StrLess(s[i], s[i + 1])

CalledCalculate(i) == out[i] # NotCalled /\ out[i].fn = "calculateRecurringDates"
CalledAnalyze(i) == out[i] # NotCalled /\ out[i].fn = "analyzeEventImage"
ReturnedDates(i, S) == out[i].res.st = "returned" /\ Range(out[i].res.dates) = S

\* a recurring guess with fields of the right types and usable month bounds
WellTypedRecurring(g) ==
    g.is_recurring = True /\ NamesWellTyped(g) /\ BoundsWellFormed(g)

-----------------------------------------------------------------------------
(* Claims *)

\* C1 - Weekday fidelity: for a recurring guess with at least one recognised
\* weekday name and well-formed month bounds with monthStart <= monthEnd,
\* calculateRecurringDates returns exactly the dates from the first day of
\* monthStart to the last day of monthEnd whose weekday is requested.
C1_WeekdayFidelity ==
    \A i \in DOMAIN responses :
        (/\ CalledCalculate(i)
         /\ WellTypedRecurring(responses[i])
         /\ RequestedWeekdays(responses[i]) # {}
         /\ RefMonths(responses[i], now) # {})
        => ReturnedDates(i, RefWeekdayDates(responses[i], now))

\* viernes and sábado over 2024-02 .. 2024-04: twenty-six dates, the first
\* Friday 2024-02-02 and the last Saturday 2024-04-27
C1_Witness ==
    /\ CalledCalculate(1)
    /\ WellTypedRecurring(responses[1])
    /\ RequestedWeekdays(responses[1]) = {5, 6}
    /\ RefMonths(responses[1], now) = {<<2024, 2>>, <<2024, 3>>, <<2024, 4>>}
    /\ out[1].res.st = "returned"
    /\ Len(out[1].res.dates) = 26
    /\ out[1].res.dates[1] = RefDateString(2024, 2, 2)
    /\ out[1].res.dates[26] = RefDateString(2024, 4, 27)

\* C2 - Ordering invariant, as claimed: every sequence calculateRecurringDates
\* returns is strictly ascending, so holds no duplicate.
C2_StrictlyAscending ==
    \A i \in DOMAIN responses :
        (CalledCalculate(i) /\ out[i].res.st = "returned")
        => StrictlyAscending(out[i].res.dates)

\* C3 - Day-skip correctness: on the specific-day path, (year, m, d) is
\* emitted for a month m of the range and a requested day d exactly when
\* 1 <= d <= the number of days of m; a missing day is skipped, not clamped.
C3_DaySkip ==
    \A i \in DOMAIN responses :
        (/\ CalledCalculate(i)
         /\ WellTypedRecurring(responses[i])
         /\ RefWeekdayDates(responses[i], now) = {})
        => ReturnedDates(i, RefSpecificDates(responses[i], now))

\* days 0 and 31 over 2024-02 .. 2024-04: March alone has a 31st, no month
\* has a day 0, and neither February 29 nor April 30 stands in
C3_Witness ==
    /\ CalledCalculate(1)
    /\ WellTypedRecurring(responses[1])
    /\ RequestedWeekdays(responses[1]) = {}
    /\ RequestedDays(responses[1]) = {0, 31}
    /\ RefMonths(responses[1], now) = {<<2024, 2>>, <<2024, 3>>, <<2024, 4>>}
    /\ out[1].res = Returned(<<RefDateString(2024, 3, 31)>>)

\* C4 - Precedence: the result is the weekday expansion whenever that
\* expansion holds a date, and the specific-day expansion only otherwise;
\* the two are never mixed.
C4_Precedence ==
    \A i \in DOMAIN responses :
        (CalledCalculate(i) /\ WellTypedRecurring(responses[i]))
        => ReturnedDates(i, IF RefWeekdayDates(responses[i], now) # {}
                            THEN RefWeekdayDates(responses[i], now)
                            ELSE RefSpecificDates(responses[i], now))

\* a guess with viernes and the day numbers 5 and 29: the Fridays alone
C4_Witness ==
    /\ CalledCalculate(1)
    /\ WellTypedRecurring(responses[1])
    /\ RequestedWeekdays(responses[1]) = {5}
    /\ RequestedDays(responses[1]) = {5, 29}
    /\ RefSpecificDates(responses[1], now) # {}
    /\ out[1].res.st = "returned"
    /\ out[1].res.dates # <<>>
    /\ Range(out[1].res.dates) \cap RefSpecificDates(responses[1], now) = {}

NotRecurring(g) == g.is_recurring \in {False, Undefined}

AtLeastTwoDays(g) ==
    g.recurring_specific_days.k = "arr" /\ Len(g.recurring_specific_days.a) >= 2

NoWeekdayNames(g) ==
    /\ Absent(g.recurring_days_of_week) \/ g.recurring_days_of_week = Arr(<<>>)
    /\ Absent(g.recurring_day_of_week)

\* one date per requested day number, in the primary date's year and month
RefExplicitDates(g) ==
    {RefDateString(RefYear(g.date.s), RefMonth(g.date.s), d) : d \in RequestedDays(g)}

\* C5 - Explicit-vs-recurring boundary in analyzeEventImage: not recurring,
\* two or more specific days and a well-formed primary date give one date per
\* day number in the primary date's own year and month; the same days with
\* is_recurring true and no weekday names give the day-of-month expansion over
\* every month of the month range.
C5_ExplicitVsRecurring ==
    \A i \in DOMAIN responses :
        CalledAnalyze(i) =>
          /\ (/\ NotRecurring(responses[i])
              /\ AtLeastTwoDays(responses[i])
              /\ WellFormedDate(responses[i].date))
             => /\ ReturnedDates(i, RefExplicitDates(responses[i]))
                /\ Len(out[i].res.dates) = Len(responses[i].recurring_specific_days.a)
          /\ (/\ responses[i].is_recurring = True
              /\ AtLeastTwoDays(responses[i])
              /\ NoWeekdayNames(responses[i])
              /\ BoundsWellFormed(responses[i]))
             => ReturnedDates(i, RefSpecificDates(responses[i], now))

\* not recurring, days [29, 5], date 2024-02-13: 2024-02-05 and 2024-02-29
C5_Witness ==
    /\ CalledAnalyze(1)
    /\ responses[1].is_recurring = False
    /\ responses[1].date = Str(S_2024_02_13)
    /\ responses[1].recurring_specific_days = Arr(<<29, 5>>)
    /\ responses[1].recurring_month_start = Str(S_2024_02)
    /\ out[1].res = Returned(<<RefDateString(2024, 2, 5), RefDateString(2024, 2, 29)>>)

\* C8 - Totality, as claimed: whatever the guess fields hold,
\* calculateRecurringDates returns a list and raises nothing.
C8_Totality ==
    \A i \in DOMAIN responses :
        CalledCalculate(i) => out[i].res.st = "returned"

\* C9 - Non-recurring classification, as claimed: with is_recurring false,
\* analyzeEventImage gives the empty recurring_dates unless there are two or
\* more specific days and the primary date is present and well-formed.
C9_NonRecurringEmpty ==
    \A i \in DOMAIN responses :
        (/\ CalledAnalyze(i)
         /\ responses[i].is_recurring = False
         /\ ~(AtLeastTwoDays(responses[i]) /\ WellFormedDate(responses[i].date)))
        => out[i].res = Returned(<<>>)

\* answers that agree on every field but recurring_dates
SamePattern(g, h) ==
    [g EXCEPT !.recurring_dates = Null] = [h EXCEPT !.recurring_dates = Null]

\* C10 - The classifier's own date list is discarded: two answers that differ
\* only in their recurring_dates give the same recurring_dates.
C10_LlmDatesDiscarded ==
    \A i, j \in DOMAIN responses :
        (/\ CalledAnalyze(i)
         /\ CalledAnalyze(j)
         /\ SamePattern(responses[i], responses[j]))
        => out[i].res = out[j].res

\* two non-recurring answers with a single specific day, one carrying its own
\* date list: both analysed to the empty list
C10_Witness ==
    /\ Len(responses) = 2
    /\ SamePattern(responses[1], responses[2])
    /\ responses[1].recurring_dates = Arr(<<S_1999_01_01>>)
    /\ responses[2].recurring_dates = Arr(<<>>)
    /\ responses[1].is_recurring = False
    /\ responses[1].recurring_specific_days = Arr(<<5>>)
    /\ CalledAnalyze(1)
    /\ CalledAnalyze(2)
    /\ out[1].res = Returned(<<>>)
    /\ out[2].res = Returned(<<>>)

\* the dates of an event: its primary date and its recurring dates
AllDatesOf(e) ==
    {e.date.s} \cup (IF e.recurring_dates.k = "arr"
                     THEN {e.recurring_dates.a[i].s :
                              i \in {j \in DOMAIN e.recurring_dates.a :
                                       e.recurring_dates.a[j].k = "str"}}
                     ELSE {})

RefMaxDate(S) == CHOOSE m \in S : \A x \in S : ~StrLess(m, x)

HasRecurringDates(e) ==
    e.is_recurring = True /\ e.recurring_dates.k = "arr" /\ Len(e.recurring_dates.a) > 0

\* C6 - Effective expiration rule: null when the primary date is absent; the
\* primary date when the event is not recurring or its recurring date list is
\* empty; otherwise the last, in string order, of the primary date and all
\* recurring dates.
C6_EffectiveExpiration ==
    \A i \in DOMAIN expiry :
        /\ Absent(events[i].date) => expiry[i] = Null
        /\ (~Absent(events[i].date) /\ ~HasRecurringDates(events[i]))
           => expiry[i] = events[i].date
        /\ (~Absent(events[i].date) /\ HasRecurringDates(events[i]))
           => expiry[i] = Str(RefMaxDate(AllDatesOf(events[i])))

\* primary 2026-02-10 with recurring dates 02-10, 02-11, 02-12: 2026-02-12
C6_Witness ==
    /\ expiry # <<>>
    /\ events[1] = EventRow(Str(S_2026_02_10), True,
                            Arr(<<Str(S_2026_02_10), Str(S_2026_02_11),
                                  Str(S_2026_02_12)>>))
    /\ expiry[1] = Str(S_2026_02_12)

\* C7 - Listing visibility, as claimed: GET /api/events keeps an event exactly
\* when it has no date or its effective expiration date is >= today, so a
\* recurring event stays listed up to and including its last date.
C7_ListingVisibility ==
    listing # Null =>
        \A i \in DOMAIN events :
            i \in listing.ids
            <=> \/ getEffectiveExpirationDate(events[i]) = Null
                \/ StrGe(getEffectiveExpirationDate(events[i]).s, listing.todayStr)

\* a resolved bound that is a year and a month of the year (0-indexed 0..11)
IsYearMonth(y, m) == IsNum(y) /\ IsNum(m) /\ m.n \in 0..11

\* C11 - Month-bound invariant, as claimed: the month bounds resolved inside
\* calculateRecurringDates are a year and a month of the year each, and
\* monthStart <= monthEnd in (year, month) order.
C11_MonthBounds ==
    \A i \in DOMAIN responses :
        (CalledCalculate(i) /\ out[i].range # NoRange)
        => LET r == out[i].range.r
           IN /\ IsYearMonth(r.startYear, r.startMonth)
              /\ IsYearMonth(r.endYear, r.endMonth)
              /\ r.startYear.n * 12 + r.startMonth.n
                 <= r.endYear.n * 12 + r.endMonth.n

\* the expansion of a guess over one month: the dates of that month on a
\* requested weekday, or failing any, the requested day numbers the month has
RefSingleMonth(g, y, m) ==
    LET w == {RefDateString(y, m, d) :
                 d \in {x \in 1..RefDaysIn(y, m) :
                          RefWeekday(y, m, x) \in RequestedWeekdays(g)}}
        s == {RefDateString(y, m, d) :
                 d \in {x \in RequestedDays(g) : 1 <= x /\ x <= RefDaysIn(y, m)}}
    IN IF w # {} THEN w ELSE s

\* C12 - Month-range defaulting: an omitted recurring_month_start resolves to
\* the clock's month and an omitted recurring_month_end to the resolved start;
\* a guess without bounds expands over the clock's month alone, and a guess
\* with a start month alone over that month alone.
C12_MonthDefaulting ==
    \A i \in DOMAIN responses :
        (CalledCalculate(i) /\ out[i].range # NoRange)
        => LET g == responses[i]
               r == out[i].range.r
           IN /\ Absent(g.recurring_month_start)
                 => r.startYear = Num(now.year) /\ r.startMonth = Num(now.month)
              /\ Absent(g.recurring_month_end)
                 => r.endYear = r.startYear /\ r.endMonth = r.startMonth
              /\ (/\ Absent(g.recurring_month_start)
                  /\ Absent(g.recurring_month_end)
                  /\ NamesWellTyped(g))
                 => ReturnedDates(i, RefSingleMonth(g, now.year, now.month + 1))
              /\ (/\ WellFormedMonth(g.recurring_month_start)
                  /\ Absent(g.recurring_month_end)
                  /\ NamesWellTyped(g))
                 => ReturnedDates(i, RefSingleMonth(g, RefYear(g.recurring_month_start.s),
                                                    RefMonth(g.recurring_month_start.s)))

\* a start of 2023-12 alone, read in February 2024: the five Fridays of
\* December 2023 and nothing of the months up to the clock's
C12_Witness ==
    /\ CalledCalculate(1)
    /\ WellTypedRecurring(responses[1])
    /\ responses[1].recurring_month_start = Str(S_2023_12)
    /\ responses[1].recurring_month_end = Null
    /\ now = [year |-> 2024, month |-> 1]
    /\ RequestedWeekdays(responses[1]) = {5}
    /\ out[1].res = Returned(<<RefDateString(2023, 12, 1), RefDateString(2023, 12, 8),
                               RefDateString(2023, 12, 15), RefDateString(2023, 12, 22),
                               RefDateString(2023, 12, 29)>>)

\* no bounds at all, read in February 2023: the requested 29th does not exist
\* in the clock's month and nothing is emitted
C12_WitnessBothOmitted ==
    /\ CalledCalculate(1)
    /\ WellTypedRecurring(responses[1])
    /\ responses[1].recurring_month_start = Null
    /\ responses[1].recurring_month_end = Null
    /\ now = [year |-> 2023, month |-> 1]
    /\ RequestedWeekdays(responses[1]) = {}
    /\ RequestedDays(responses[1]) = {5, 29}
    /\ Range(out[1].res.dates) = {RefDateString(2023, 2, 5)}

\* a weekday given as one string: in recurring_days_of_week, or in the legacy
\* recurring_day_of_week beside an absent, null or empty recurring_days_of_week
SingleStringName(g) ==
    \/ g.recurring_days_of_week.k = "str"
    \/ /\ Absent(g.recurring_days_of_week) \/ g.recurring_days_of_week = Arr(<<>>)
       /\ g.recurring_day_of_week.k = "str"

\* the same guess with that name in a one-element list
ListForm(g) ==
    [g EXCEPT !.recurring_days_of_week =
                  Arr(<<IF g.recurring_days_of_week.k = "str"
                        THEN g.recurring_days_of_week
                        ELSE g.recurring_day_of_week>>),
              !.recurring_day_of_week = Null]

\* C13 - String-or-list equivalence, as claimed: a weekday given as a single
\* string, in recurring_days_of_week or in the legacy recurring_day_of_week
\* beside an absent, null or empty recurring_days_of_week, expands to the
\* dates of the one-element list holding that name.
C13_StringOrList ==
    \A i \in DOMAIN responses :
        (/\ CalledCalculate(i)
         /\ responses[i].is_recurring = True
         /\ SingleStringName(responses[i]))
        => out[i].res = calculateRecurringDates(ListForm(responses[i]), now)

\* the weekday each spelling stands for, 0 = Sunday .. 6 = Saturday
RefSpellings ==
    {<<S_domingo, 0>>, <<S_lunes, 1>>, <<S_martes, 2>>, <<S_miercoles, 3>>,
     <<S_miercoles_acute, 3>>, <<S_Miercoles_acute, 3>>, <<S_jueves, 4>>,
     <<S_viernes, 5>>, <<S_Viernes, 5>>, <<S_sabado, 6>>, <<S_sabado_acute, 6>>,
     <<S_SABADO, 6>>}

\* the names of a guess: the list or the string of recurring_days_of_week, or
\* the legacy string beside an absent recurring_days_of_week
RefNames(g) ==
    IF g.recurring_days_of_week.k = "arr"
    THEN {g.recurring_days_of_week.a[i] : i \in DOMAIN g.recurring_days_of_week.a}
    ELSE IF g.recurring_days_of_week.k = "str" THEN {g.recurring_days_of_week}
    ELSE IF Absent(g.recurring_days_of_week) /\ g.recurring_day_of_week.k = "str"
    THEN {g.recurring_day_of_week}
    ELSE {}

\* every name of the guess is a spelling of a weekday
AllSpelled(g) ==
    /\ RefNames(g) # {}
    /\ \A n \in RefNames(g) : n.k = "str" /\ \E p \in RefSpellings : p[1] = n.s

RefSpelledWeekdays(g) ==
    {p[2] : p \in {q \in RefSpellings : Str(q[1]) \in RefNames(g)}}

\* C14 - Weekday vocabulary aliasing: the seven Spanish weekday names stand
\* for the Sunday-based indices 0..6, and a name spelled with or without its
\* accent, in any letter case, between blanks, stands for the same weekday:
\* the result is the dates of the range on the weekdays the names stand for.
C14_VocabularyAliasing ==
    \A i \in DOMAIN responses :
        (/\ CalledCalculate(i)
         /\ responses[i].is_recurring = True
         /\ AllSpelled(responses[i])
         /\ BoundsWellFormed(responses[i])
         /\ RefMonths(responses[i], now) # {})
        => ReturnedDates(i,
             {RefDateString(x[1], x[2], x[3]) :
                 x \in {z \in {<<ym[1], ym[2], d>> :
                                  ym \in RefMonths(responses[i], now), d \in 1..31} :
                          /\ z[3] <= RefDaysIn(z[1], z[2])
                          /\ RefWeekday(z[1], z[2], z[3])
                             \in RefSpelledWeekdays(responses[i])}})

\* "miercoles" and " Miércoles" over February 2024: its four Wednesdays, once
C14_Witness ==
    /\ CalledCalculate(1)
    /\ responses[1].recurring_days_of_week
       = Arr(<<Str(S_miercoles), Str(S_Miercoles_acute)>>)
    /\ responses[1].recurring_month_start = Str(S_2024_02)
    /\ responses[1].recurring_month_end = Null
    /\ out[1].res = Returned(<<RefDateString(2024, 2, 7), RefDateString(2024, 2, 14),
                               RefDateString(2024, 2, 21), RefDateString(2024, 2, 28)>>)

IsSpelling(n) == n.k = "str" /\ \E p \in RefSpellings : p[1] = n.s

\* the guess with the names that are no weekday taken out of its list
RecognisedAlone(g) ==
    [g EXCEPT !.recurring_days_of_week = Arr(SelectSeq(@.a, IsSpelling))]

NoSpecificDays(g) ==
    Absent(g.recurring_specific_days) \/ g.recurring_specific_days = Arr(<<>>)

\* month bounds of the declared type: a string, or absent
BoundsAreStrings(g) ==
    /\ Absent(g.recurring_month_start) \/ g.recurring_month_start.k = "str"
    /\ Absent(g.recurring_month_end) \/ g.recurring_month_end.k = "str"

\* C15 - Unrecognised weekday names are dropped silently, as claimed: a list
\* of names gives the result of its recognised names alone, and with no
\* recognised name and no specific day the result is the empty list.
C15_UnrecognisedDropped ==
    \A i \in DOMAIN responses :
        (/\ CalledCalculate(i)
         /\ responses[i].is_recurring = True
         /\ responses[i].recurring_days_of_week.k = "arr"
         /\ NamesWellTyped(responses[i])
         /\ BoundsAreStrings(responses[i]))
        => /\ out[i].res = calculateRecurringDates(RecognisedAlone(responses[i]), now)
           /\ (/\ \A n \in RefNames(responses[i]) : ~IsSpelling(n)
               /\ NoSpecificDays(responses[i]))
              => out[i].res = Returned(<<>>)

\* C16 - Explicit multi-day output guarantees, as claimed: for a guess that is
\* not recurring, with two or more specific days in any order and a primary
\* date YYYY-MM-DD, the recurring_dates of analyzeEventImage ascend strictly
\* (no date twice) and every entry is YYYY-MM-DD with two-digit month and day.
C16_ExplicitOutput ==
    \A i \in DOMAIN responses :
        (/\ CalledAnalyze(i)
         /\ NotRecurring(responses[i])
         /\ AtLeastTwoDays(responses[i])
         /\ WellFormedDate(responses[i].date))
        => /\ out[i].res.st = "returned"
           /\ StrictlyAscending(out[i].res.dates)
           /\ \A k \in DOMAIN out[i].res.dates : WellFormedDate(Str(out[i].res.dates[k]))

\* C17 - Explicit multi-day day validity, as claimed: for such a guess every
\* date of recurring_dates is a day of the primary date's month, a day number
\* the month does not have being skipped.
C17_ExplicitDayValidity ==
    \A i \in DOMAIN responses :
        (/\ CalledAnalyze(i)
         /\ NotRecurring(responses[i])
         /\ AtLeastTwoDays(responses[i])
         /\ WellFormedDate(responses[i].date))
        => LET y == RefYear(responses[i].date.s)
               m == RefMonth(responses[i].date.s)
           IN ReturnedDates(i, {RefDateString(y, m, d) :
                                   d \in {x \in RequestedDays(responses[i]) :
                                            1 <= x /\ x <= RefDaysIn(y, m)}})

\* C18 - Expiration monotonicity: for an event with a primary date, the
\* effective expiration date is >= the primary date when the event is
\* recurring, whatever its recurring dates, and is the primary date when the
\* event is not recurring.
C18_ExpirationMonotonic ==
    \A i \in DOMAIN expiry :
        ~Absent(events[i].date)
        => /\ events[i].is_recurring = True
              => expiry[i].k = "str" /\ StrGe(expiry[i].s, events[i].date.s)
           /\ events[i].is_recurring = False => expiry[i] = events[i].date

\* a recurring event of 2026-02-10 whose only recurring date is the day
\* before: it expires on its primary date
C18_Witness ==
    /\ expiry # <<>>
    /\ events[1] = EventRow(Str(S_2026_02_10), True, Arr(<<Null, Str(S_2026_02_09)>>))
    /\ expiry[1] = Str(S_2026_02_10)

BothBoundsSupplied(g) ==
    ~Absent(g.recurring_month_start) /\ ~Absent(g.recurring_month_end)

\* C19 - Determinism and clock independence: two calls of
\* calculateRecurringDates on the same guess return the same sequence when
\* they read the same processing month, and, when the guess supplies both
\* month bounds, whatever months they read.
C19_ClockIndependence ==
    \A i, j \in DOMAIN responses :
        (/\ CalledCalculate(i)
         /\ CalledCalculate(j)
         /\ responses[i] = responses[j])
        => /\ out[i].at = out[j].at => out[i].res = out[j].res
           /\ BothBoundsSupplied(responses[i]) => out[i].res = out[j].res

\* viernes over 2024-02 .. 2024-04, expanded in December 2023 and again in
\* April 2024: the same thirteen Fridays
C19_Witness ==
    /\ Len(responses) = 2
    /\ responses[1] = responses[2]
    /\ responses[1].recurring_month_start = Str(S_2024_02)
    /\ responses[1].recurring_month_end = Str(S_2024_04)
    /\ responses[1].recurring_days_of_week = Arr(<<Str(S_viernes)>>)
    /\ CalledCalculate(1)
    /\ CalledCalculate(2)
    /\ out[1].at = [year |-> 2023, month |-> 11]
    /\ out[2].at = [year |-> 2024, month |-> 3]
    /\ out[1].res = out[2].res
    /\ Len(out[1].res.dates) = 13

\* a step that answers 200 to a register request carrying the code of row id
RegistersWithCode(id) ==
    /\ auth_res'.seq = auth_res.seq + 1
    /\ auth_res'.route = "register"
    /\ auth_res'.status = 200
    /\ auth_res'.invCode = id

-----------------------------------------------------------------------------
(* calculateRecurringDates, its two while loops taken one pass at a time.  *)
(* loop holds the locals of the call: year, month, dates, the resolved     *)
(* range and dayIndices; visited1 and visited2 list the (year, month)      *)
(* pairs the body of each loop ran for, ran the loops that were entered.   *)

\* answers flagged recurring whose month bounds are "YYYY-MM" strings or absent
LoopGuesses ==
    {Guess(True, Str(S_2024_02_13), ms, me, dow, Null, days, LlmDates) :
        ms \in {Null, Str(S_2023_12), Str(S_2024_01), Str(S_2024_02), Str(S_2024_04)},
        me \in {Null, Str(S_2023_12), Str(S_2024_01), Str(S_2024_02)},
        dow \in {Arr(<<>>), Arr(<<Str(S_viernes)>>)},
        days \in {Null, Arr(<<5>>), Arr(<<29, 31>>)}}

InitLoop ==
    /\ responses \in {<<g>> : g \in LoopGuesses}
    /\ now \in {c \in ClockInstants : c.year = 2024}
    /\ out = <<NotCalled>>
    /\ loop = [pc |-> "idle"]
    /\ ListingIdle
    /\ AuthIdle
    /\ saved_events = {}
    /\ event_registrations = <<>>
    /\ attended_events = <<>>
    /\ reqs = <<>>
    /\ migration = [pc |-> "idle"]
    /\ extraction_jobs = <<>>
    /\ handlers = <<>>

LoopFrame ==
    UNCHANGED <<responses, now, events, clock, listing, expiry, authVars,
                attVars, migration, jobVars>>

\* lines 23-63: the range, dayIndices, and the entry into Case 1
LoopEnter ==
    /\ loop.pc = "idle"
    /\ Truthy(responses[1].is_recurring)
    /\ ~ThrowsTypeError(responses[1])
    /\ LET r == MonthRange(responses[1], now)
           dayIndices == DayIndices(DayNames(RawDays(responses[1])))
       IN loop' = [pc |-> IF Len(dayIndices) > 0 THEN "while1" ELSE "case2",
                   r |-> r, dayIndices |-> dayIndices,
                   year |-> r.startYear, month |-> r.startMonth,
                   dates |-> <<>>, visited1 |-> <<>>, visited2 |-> <<>>,
                   ran |-> IF Len(dayIndices) > 0 THEN {1} ELSE {}]
    /\ UNCHANGED out
    /\ LoopFrame

\* lines 65-79: one pass of the weekday loop
While1Step ==
    /\ loop.pc = "while1"
    /\ LoopCond(loop.year, loop.month, loop.r.endYear, loop.r.endMonth)
    /\ LET nxt == NextMonth(loop.year, loop.month)
       IN loop' = [loop EXCEPT
                     !.dates = @ \o WeekdayBody(loop.year, loop.month, loop.dayIndices),
                     !.visited1 = Append(@, <<loop.year, loop.month>>),
                     !.year = nxt.year, !.month = nxt.month]
    /\ UNCHANGED out
    /\ LoopFrame

\* lines 65 and 81: the condition fails, dates.sort()
While1Exit ==
    /\ loop.pc = "while1"
    /\ ~LoopCond(loop.year, loop.month, loop.r.endYear, loop.r.endMonth)
    /\ loop' = [loop EXCEPT !.pc = "case2", !.dates = ArraySort(@)]
    /\ UNCHANGED out
    /\ LoopFrame

\* lines 85-88: the entry into Case 2
Case2Enter ==
    /\ loop.pc = "case2"
    /\ loop' = IF SpecificCaseRuns(responses[1].recurring_specific_days, loop.dates)
               THEN [loop EXCEPT !.pc = "while2", !.year = loop.r.startYear,
                                 !.month = loop.r.startMonth, !.ran = @ \cup {2}]
               ELSE [loop EXCEPT !.pc = "done"]
    /\ UNCHANGED out
    /\ LoopFrame

\* lines 90-101: one pass of the specific-day loop
While2Step ==
    /\ loop.pc = "while2"
    /\ LoopCond(loop.year, loop.month, loop.r.endYear, loop.r.endMonth)
    /\ LET nxt == NextMonth(loop.year, loop.month)
       IN loop' = [loop EXCEPT
                     !.dates = @ \o SpecificBody(loop.year, loop.month,
                                                 responses[1].recurring_specific_days.a),
                     !.visited2 = Append(@, <<loop.year, loop.month>>),
                     !.year = nxt.year, !.month = nxt.month]
    /\ UNCHANGED out
    /\ LoopFrame

\* line 90: the condition fails
While2Exit ==
    /\ loop.pc = "while2"
    /\ ~LoopCond(loop.year, loop.month, loop.r.endYear, loop.r.endMonth)
    /\ loop' = [loop EXCEPT !.pc = "done"]
    /\ UNCHANGED out
    /\ LoopFrame

\* line 105: return dates
LoopReturn ==
    /\ loop.pc = "done"
    /\ loop' = [loop EXCEPT !.pc = "returned"]
    /\ out' = [out EXCEPT ![1] = [fn |-> "calculateRecurringDates", at |-> now,
                                  range |-> [k |-> "range", r |-> loop.r],
                                  res |-> Returned(loop.dates)]]
    /\ LoopFrame

NextLoop ==
    \/ LoopEnter
    \/ While1Step
    \/ While1Exit
    \/ Case2Enter
    \/ While2Step
    \/ While2Exit
    \/ LoopReturn

SpecLoop == InitLoop /\ [][NextLoop]_vars

\* the months from monthStart through monthEnd, in chronological order, as
\* (year, 0-indexed month) pairs
RefMonthSeq(g, clk) ==
    LET s == RefStart(g, clk)
        e == RefEnd(g, clk)
        first == s.y * 12 + (s.m - 1)
        last == e.y * 12 + (e.m - 1)
    IN [i \in 1..(IF last >= first THEN last - first + 1 ELSE 0) |->
           <<Num((first + i - 1) \div 12), Num((first + i - 1) % 12)>>]

IsPrefix(a, b) == Len(a) <= Len(b) /\ \A i \in DOMAIN a : a[i] = b[i]

\* the loop with that number is over
LoopOver(k) ==
    \/ loop.pc \in {"done", "returned"}
    \/ k = 1 /\ loop.pc \in {"case2", "while2"}

\* C25 - Month iteration and termination: for well-formed month bounds each
\* expansion loop of calculateRecurringDates visits the months from
\* monthStart through monthEnd inclusive once each, in chronological order
\* with December followed by January of the next year, and then stops; a
\* loop never makes more passes than there are months in the range, and with
\* monthStart after monthEnd no month is visited and the result is empty.
C25_MonthIteration ==
    (loop.pc # "idle" /\ BoundsWellFormed(responses[1]))
    => LET months == RefMonthSeq(responses[1], now)
       IN /\ IsPrefix(loop.visited1, months)
          /\ IsPrefix(loop.visited2, months)
          /\ \A k \in {1, 2} :
                LoopOver(k)
                => (IF k = 1 THEN loop.visited1 ELSE loop.visited2)
                   = (IF k \in loop.ran THEN months ELSE <<>>)
          /\ (loop.pc = "while1" /\ loop.visited1 = months)
             => ~LoopCond(loop.year, loop.month, loop.r.endYear, loop.r.endMonth)
          /\ (loop.pc = "while2" /\ loop.visited2 = months)
             => ~LoopCond(loop.year, loop.month, loop.r.endYear, loop.r.endMonth)
          /\ (months = <<>> /\ loop.pc \in {"done", "returned"})
             => loop.dates = <<>>

\* both loops ran over a range that crosses the turn of the year
C25_Witness ==
    /\ loop.pc = "returned"
    /\ BoundsWellFormed(responses[1])
    /\ loop.ran = {2}
    /\ Len(loop.visited2) = 3
    /\ loop.visited2[1] = <<Num(2023), Num(11)>>
    /\ loop.visited2[2] = <<Num(2024), Num(0)>>

\* the weekday loop ran; and a range with monthStart after monthEnd was left
\* without a pass
C25_WitnessWeekday ==
    /\ loop.pc = "returned"
    /\ loop.ran = {1}
    /\ Len(loop.visited1) = 3
    /\ loop.visited1[1] = <<Num(2023), Num(11)>>

C25_WitnessEmpty ==
    /\ loop.pc = "returned"
    /\ loop.ran # {}
    /\ RefMonthSeq(responses[1], now) = <<>>
    /\ loop.dates = <<>>

-----------------------------------------------------------------------------
(* whatsappFlyers.js lines 752-985: the extraction-job routes.  Both        *)
(* routes answer at once and go on in the background; a background handler  *)
(* takes one step per await.  A query of the Supabase client resolves with  *)
(* { data, error } and does not throw, and no update's error is read, so a  *)
(* failed update leaves the row as it was and the handler goes on.  A row   *)
(* of extraction_jobs is its status; source_url, extracted_images,          *)
(* selected_image_url, analysis_result and error_message are left out.      *)
(* getSupabase() returns a client (the 503 answers are left out).           *)

\* the number of rows of extraction_jobs
MaxJobs == 2

\* the number of requests to /api/extraction-jobs
MaxHandlers == 2

S_img == <<"i", "m", "g">>

\* jobs the frontend inserted, some of them extracted already; no request
\* in flight
InitJobs ==
    /\ extraction_jobs \in UNION {[1..n -> {[status |-> "pending"], [status |-> "ready"]}] :
                                     n \in 1..MaxJobs}
    /\ handlers = <<>>
    /\ DatesIdle
    /\ ListingIdle
    /\ AuthIdle
    /\ saved_events = {}
    /\ event_registrations = <<>>
    /\ attended_events = <<>>
    /\ reqs = <<>>
    /\ migration = [pc |-> "idle"]
    /\ loop = [pc |-> "idle"]

JobsFrame ==
    UNCHANGED <<responses, now, out, events, clock, listing, expiry, authVars,
                attVars, migration, loop>>

\* lines 765-775: POST /process/:id is answered, the handler goes on
PostProcess ==
    /\ Len(handlers) < MaxHandlers
    /\ \E id \in 1..MaxJobs :
          handlers' = Append(handlers, [route |-> "process", id |-> id,
                                        pc |-> "fetch", res |-> 200])
    /\ UNCHANGED extraction_jobs
    /\ JobsFrame

\* lines 863-877: POST /analyze/:id is answered; without image_url it ends
PostAnalyze ==
    /\ Len(handlers) < MaxHandlers
    /\ \E id \in 1..MaxJobs, image_url \in {Undefined, Str(S_img)} :
          handlers' = Append(handlers,
                             IF ~Truthy(image_url)
                             THEN [route |-> "analyze", id |-> id,
                                   pc |-> "end", res |-> 400]
                             ELSE [route |-> "analyze", id |-> id,
                                   pc |-> "fetch", res |-> 200])
    /\ UNCHANGED extraction_jobs
    /\ JobsFrame

\* lines 779-793 and 881-895: the job is read; the handler goes on when the
\* row was found and its status is the one the route expects
Fetch(h, expected, next) ==
    /\ handlers[h].pc = "fetch"
    /\ \E fetchError \in BOOLEAN :
          LET found == ~fetchError /\ handlers[h].id \in DOMAIN extraction_jobs
          IN handlers' = [handlers EXCEPT ![h].pc =
                            IF found /\ extraction_jobs[handlers[h].id].status = expected
                            THEN next ELSE "end"]
    /\ UNCHANGED extraction_jobs
    /\ JobsFrame

\* await supabase.from('extraction_jobs').update({ status }).eq('id', id):
\* the row gets the status unless the update fails
Update(h, at, status, next) ==
    /\ handlers[h].pc = at
    /\ \E updateFails \in BOOLEAN :
          extraction_jobs' =
             IF updateFails \/ handlers[h].id \notin DOMAIN extraction_jobs
             THEN extraction_jobs
             ELSE [extraction_jobs EXCEPT ![handlers[h].id].status = status]
    /\ handlers' = [handlers EXCEPT ![h].pc = next]
    /\ JobsFrame

\* an external call returns with one of its outcomes
External(h, at, nexts) ==
    /\ handlers[h].pc = at
    /\ \E next \in nexts : handlers' = [handlers EXCEPT ![h].pc = next]
    /\ UNCHANGED extraction_jobs
    /\ JobsFrame

\* lines 779-793
ProcessFetch(h) ==
    handlers[h].route = "process" /\ Fetch(h, "pending", "setExtracting")

\* lines 795-799
ProcessSetExtracting(h) ==
    handlers[h].route = "process" /\ Update(h, "setExtracting", "extracting", "extractor")

\* lines 803-813: the scraping service answers with images, without any, or
\* the call throws (timeout, HTTP error)
ProcessExtractor(h) ==
    handlers[h].route = "process"
    /\ External(h, "extractor", {"setReady", "setNoImages", "catch"})

\* lines 815-826
ProcessSetNoImages(h) ==
    handlers[h].route = "process" /\ Update(h, "setNoImages", "failed", "end")

\* lines 828-835
ProcessSetReady(h) ==
    handlers[h].route = "process" /\ Update(h, "setReady", "ready", "end")

\* lines 839-855
ProcessCatch(h) ==
    handlers[h].route = "process" /\ Update(h, "catch", "failed", "end")

\* lines 881-895
AnalyzeFetch(h) ==
    handlers[h].route = "analyze" /\ Fetch(h, "ready", "setAnalyzing")

\* lines 897-904
AnalyzeSetAnalyzing(h) ==
    handlers[h].route = "analyze" /\ Update(h, "setAnalyzing", "analyzing", "download")

\* lines 908-916: the image is downloaded, or axios throws
AnalyzeDownload(h) ==
    handlers[h].route = "analyze" /\ External(h, "download", {"vision", "catch"})

\* line 923: analyzeEventImage returns, or throws
AnalyzeVision(h) ==
    handlers[h].route = "analyze" /\ External(h, "vision", {"setCompleted", "catch"})

\* lines 925-932
AnalyzeSetCompleted(h) ==
    handlers[h].route = "analyze" /\ Update(h, "setCompleted", "completed", "end")

\* lines 936-951
AnalyzeCatch(h) ==
    handlers[h].route = "analyze" /\ Update(h, "catch", "failed", "end")

\* one step of the background handler h
HandlerStep(h) ==
    \/ ProcessFetch(h)
    \/ ProcessSetExtracting(h)
    \/ ProcessExtractor(h)
    \/ ProcessSetNoImages(h)
    \/ ProcessSetReady(h)
    \/ ProcessCatch(h)
    \/ AnalyzeFetch(h)
    \/ AnalyzeSetAnalyzing(h)
    \/ AnalyzeDownload(h)
    \/ AnalyzeVision(h)
    \/ AnalyzeSetCompleted(h)
    \/ AnalyzeCatch(h)

NextJobs ==
    \/ PostProcess
    \/ PostAnalyze
    \/ \E h \in DOMAIN handlers : ProcessFetch(h)
    \/ \E h \in DOMAIN handlers : ProcessSetExtracting(h)
    \/ \E h \in DOMAIN handlers : ProcessExtractor(h)
    \/ \E h \in DOMAIN handlers : ProcessSetNoImages(h)
    \/ \E h \in DOMAIN handlers : ProcessSetReady(h)
    \/ \E h \in DOMAIN handlers : ProcessCatch(h)
    \/ \E h \in DOMAIN handlers : AnalyzeFetch(h)
    \/ \E h \in DOMAIN handlers : AnalyzeSetAnalyzing(h)
    \/ \E h \in DOMAIN handlers : AnalyzeDownload(h)
    \/ \E h \in DOMAIN handlers : AnalyzeVision(h)
    \/ \E h \in DOMAIN handlers : AnalyzeSetCompleted(h)
    \/ \E h \in DOMAIN handlers : AnalyzeCatch(h)

SpecJobs == InitJobs /\ [][NextJobs]_vars

\* every await of a background handler resolves: the event loop runs each
\* handler on, and every external call returns or throws (timeouts of 120 s
\* and 30 s, lines 806 and 911)
SpecJobsFair ==
    /\ InitJobs
    /\ [][NextJobs]_vars
    /\ \A h \in 1..MaxHandlers : WF_vars(h \in DOMAIN handlers /\ HandlerStep(h))

\* the status changes the protocol allows
StatusSteps ==
    {<<"pending", "extracting">>, <<"extracting", "ready">>,
     <<"extracting", "failed">>, <<"ready", "analyzing">>,
     <<"analyzing", "completed">>, <<"analyzing", "failed">>}

\* C26 - Extraction-job status protocol, as claimed: in any interleaving of
\* /process/:id and /analyze/:id requests a job's status changes only along
\* pending->extracting, extracting->ready, extracting->failed,
\* ready->analyzing, analyzing->completed, analyzing->failed.
C26_StatusProtocol ==
    [][\A j \in DOMAIN extraction_jobs :
          extraction_jobs'[j].status # extraction_jobs[j].status
          => <<extraction_jobs[j].status, extraction_jobs'[j].status>> \in StatusSteps]_vars

\* the status of job j, "none" without such a row
StatusOf(j) ==
    IF j \in DOMAIN extraction_jobs THEN extraction_jobs[j].status ELSE "none"

\* C27 - Extraction-job progress, as claimed: every job that is in extracting
\* or analyzing eventually reaches ready, completed or failed, also when a
\* database status update fails.
C27_Progress ==
    \A j \in 1..MaxJobs :
        [](StatusOf(j) \in {"extracting", "analyzing"}
           => <>(StatusOf(j) \in {"ready", "completed", "failed"}))

-----------------------------------------------------------------------------
(* imageStorage.js lines 200-258: POST /api/storage/migrate-event-images.  *)
(* A row of events is its id and its image; the run takes one step per     *)
(* await.  URLs are sequences of tokens.  isConfigured() holds and         *)
(* SUPABASE_URL is set.                                                    *)

\* the number of rows of events
MaxImages == 3

\* process.env.SUPABASE_URL and the literal 'supabase.co/storage'
S_supabaseUrl == <<"https://", "proj", ".", "supabase.co">>
S_storage == <<"supabase.co", "/storage">>

\* images: on another host, in this project's bucket, in another project's
S_external == <<"https://", "cdn", "/", "a.jpg">>
S_stored == <<"https://", "proj", ".", "supabase.co", "/storage", "/", "old">>
S_foreign == <<"https://", "other", ".", "supabase.co", "/storage", "/", "b.jpg">>

\* the public URL of the uploaded file (lines 67-71)
PublicUrl(id) ==
    Str(<<"https://", "proj", ".", "supabase.co", "/storage", "/", "event_", id>>)

\* String.prototype.includes
Includes(s, sub) ==
    \E k \in 0..(Len(s) - Len(sub)) : SubSeq(s, k + 1, k + Len(sub)) = sub

\* parseInt of a number, or of a missing value
ParseInt(v) == IF v.k = "num" THEN v ELSE NaN

\* line 207: parseInt(req.body.limit) || 50
Limit(v) == JsOr(ParseInt(v), Num(50))

LimitPool == {Undefined, Num(0), Num(1), Num(2)}

ImagePool == {Null, Str(S_external), Str(S_stored), Str(S_foreign)}

ImageTables ==
    UNION {{[k \in 1..n |-> [id |-> k, image |-> f[k]]] : f \in [1..n -> ImagePool]} :
             n \in 1..MaxImages}

\* the elements of a set of numbers in ascending order
Ascending(S) ==
    CHOOSE q \in [1..Cardinality(S) -> S] :
        \A a, b \in 1..Cardinality(S) : a < b => q[a] < q[b]

\* lines 212-216: .not('image', 'is', null).limit(limit) returns `limit` of
\* the rows with an image, or all of them when there are fewer; which ones is
\* up to the database
Selections(limit) ==
    LET withImage == {k \in DOMAIN events : events[k].image # Null}
        size == IF limit < Cardinality(withImage) THEN limit ELSE Cardinality(withImage)
    IN {[i \in 1..size |-> events[Ascending(S)[i]]] :
           S \in {T \in SUBSET withImage : Cardinality(T) = size}}

\* lines 220-222
ToMigrate(rows) ==
    SelectSeq(rows, LAMBDA r : /\ Truthy(r.image)
                               /\ ~Includes(r.image.s, S_supabaseUrl)
                               /\ ~Includes(r.image.s, S_storage))

InitMigration ==
    /\ events \in ImageTables
    /\ migration = [pc |-> "idle"]
    /\ clock = [day |-> 0, hour |-> 0]
    /\ listing = Null
    /\ expiry = <<>>
    /\ DatesIdle
    /\ AuthIdle
    /\ saved_events = {}
    /\ event_registrations = <<>>
    /\ attended_events = <<>>
    /\ reqs = <<>>
    /\ extraction_jobs = <<>>
    /\ handlers = <<>>
    /\ loop = [pc |-> "idle"]

MigrationFrame ==
    UNCHANGED <<responses, now, out, clock, listing, expiry, authVars, attVars,
                jobVars, loop>>

\* the for...of loop of line 230: the next event, or the end of the list
ForNext(m) ==
    IF m.i <= Len(m.toMigrate) THEN [m EXCEPT !.pc = "download"]
    ELSE [m EXCEPT !.pc = "respond"]

\* mutant: a failure ends the batch
OnFailure_Abort(m) ==
    [m EXCEPT !.pc = "respond", !.failed = @ + 1,
              !.results = Append(@, [id |-> m.toMigrate[m.i].id, status |-> "failed"])]

\* lines 244-248: the catch block, then the next event
OnFailure(m) ==
    ForNext([m EXCEPT !.failed = @ + 1, !.i = @ + 1,
                      !.results = Append(@, [id |-> m.toMigrate[m.i].id,
                                             status |-> "failed"])])

\* lines 201-228: the request arrives, the events are selected
MigrateStart ==
    /\ migration.pc = "idle"
    /\ \E limit \in LimitPool, queryError \in BOOLEAN :
          IF queryError
          THEN migration' = [pc |-> "answered", status |-> 500]
          ELSE \E rows \in Selections(Limit(limit).n) :
                  migration' = ForNext([pc |-> "for", toMigrate |-> ToMigrate(rows),
                                        i |-> 1, results |-> <<>>,
                                        migrated |-> 0, failed |-> 0])
    /\ UNCHANGED events
    /\ MigrationFrame

\* line 232: downloadImage returns, or throws (HTTP error, timeout of 15 s)
Download ==
    /\ migration.pc = "download"
    /\ \E throws \in BOOLEAN :
          migration' = IF throws THEN OnFailure(migration)
                       ELSE [migration EXCEPT !.pc = "upload"]
    /\ UNCHANGED events
    /\ MigrationFrame

\* line 234: uploadToStorage returns the public URL, or throws
Upload ==
    /\ migration.pc = "upload"
    /\ \E throws \in BOOLEAN :
          migration' = IF throws THEN OnFailure(migration)
                       ELSE [migration EXCEPT !.pc = "update"]
    /\ UNCHANGED events
    /\ MigrationFrame

\* lines 237-241: the event gets the public URL unless the update fails (its
\* error is not read); migrated++, results.push
UpdateEvent ==
    /\ migration.pc = "update"
    /\ LET id == migration.toMigrate[migration.i].id
       IN /\ \E updateFails \in BOOLEAN :
                events' = IF updateFails THEN events
                          ELSE [events EXCEPT ![id].image = PublicUrl(id)]
          /\ migration' = [migration EXCEPT
                             !.pc = "delay", !.migrated = @ + 1,
                             !.results = Append(@, [id |-> id, status |-> "migrated"])]
    /\ MigrationFrame

\* line 243: the delay of 300 ms, then the next event
Delay ==
    /\ migration.pc = "delay"
    /\ migration' = ForNext([migration EXCEPT !.i = @ + 1])
    /\ UNCHANGED events
    /\ MigrationFrame

\* line 251
Respond ==
    /\ migration.pc = "respond"
    /\ migration' = [pc |-> "answered", status |-> 200,
                     migrated |-> migration.migrated, failed |-> migration.failed,
                     total |-> Len(migration.toMigrate),
                     results |-> migration.results,
                     toMigrate |-> migration.toMigrate]
    /\ UNCHANGED events
    /\ MigrationFrame

NextMigration ==
    \/ MigrateStart
    \/ Download
    \/ Upload
    \/ UpdateEvent
    \/ Delay
    \/ Respond

SpecMigration == InitMigration /\ [][NextMigration]_vars

\* the number of entries of results with that status
CountStatus(results, status) ==
    Cardinality({k \in DOMAIN results : results[k].status = status})

\* C24 - Migration error isolation: a failed download or upload never stops
\* the batch of POST /api/storage/migrate-event-images; the loop handles the
\* selected events one after the other and ends, results has one entry per
\* selected event, and migrated + failed = total.
C24_ErrorIsolation ==
    /\ migration.pc \in {"download", "upload", "update", "delay", "respond"}
       => /\ migration.i \in 1..(Len(migration.toMigrate) + 1)
          /\ Len(migration.results)
             = (IF migration.pc = "delay" THEN migration.i ELSE migration.i - 1)
          /\ migration.pc = "respond" <=> migration.i = Len(migration.toMigrate) + 1
          /\ \A k \in DOMAIN migration.results :
                migration.results[k].id = migration.toMigrate[k].id
          /\ migration.migrated = CountStatus(migration.results, "migrated")
          /\ migration.failed = CountStatus(migration.results, "failed")
    /\ (migration.pc = "answered" /\ migration.status = 200)
       => /\ Len(migration.results) = Len(migration.toMigrate)
          /\ \A k \in DOMAIN migration.results :
                migration.results[k].id = migration.toMigrate[k].id
          /\ migration.total = Len(migration.toMigrate)
          /\ migration.migrated + migration.failed = migration.total
          /\ migration.migrated = CountStatus(migration.results, "migrated")
          /\ migration.failed = CountStatus(migration.results, "failed")

\* a batch of two whose first image failed and whose second was migrated
C24_Witness ==
    /\ migration.pc = "answered"
    /\ migration.status = 200
    /\ migration.total = 2
    /\ migration.results[1].status = "failed"
    /\ migration.results[2].status = "migrated"

-----------------------------------------------------------------------------
(* events.js lines 327-813: event registrations and attendance scans.  A   *)
(* handler takes one step per query whose answer other requests can        *)
(* change; the query of the events table, which these routes never write,  *)
(* is part of the step the request arrives in.  A query that reports an    *)
(* error where the handler reads `data` alone leaves `data` null.  The     *)
(* schema is no part of the repository: an insert into event_registrations *)
(* or attended_events may be accepted or refused; saved_events refuses a   *)
(* second row for a (user_id, event_id) pair with code '23505' (line 520). *)
(* Timestamps, payment_receipt_url, registration_form_completed and        *)
(* rejection_reason are left out of the rows; isConfigured() holds.        *)

\* the number of requests to the registration and attendance routes
MaxReqs == 2

S_h1 == <<"h", "1">>
S_e1 == <<"e", "1">>
S_e9 == <<"e", "9">>

\* the event e1 of host h1
AttendanceEvent(requires_attendance_check) ==
    [id |-> Str(S_e1), user_id |-> Str(S_h1),
     requires_attendance_check |-> requires_attendance_check]

\* a row of saved_events; via names the route that inserted it ("user": the
\* user saved the event, "approval": lines 512-518) and is no column
SavedRow(user_id, via) == [event_id |-> Str(S_e1), user_id |-> user_id, via |-> via]

RegistrationRow(user_id, status) ==
    [event_id |-> Str(S_e1), user_id |-> user_id, status |-> status]

AttendedRow(event_id, user_id, host) ==
    [event_id |-> event_id, user_id |-> user_id, scanned_by_host |-> True,
     scanned_by_user_id |-> host]

\* the tables before the requests: u1 without a registration or with one
\* that is pending, approved (and saved by the approval) or rejected; u2
\* without a row, with the event saved, or saved and scanned
InitAttendance ==
    /\ events \in {<<AttendanceEvent(b)>> : b \in {True, False}}
    /\ \E st \in {"none", "pending", "approved", "rejected"},
          u2 \in {"none", "saved", "attended"} :
          /\ event_registrations
                = IF st = "none" THEN <<>> ELSE <<RegistrationRow(Str(S_u1), st)>>
          /\ saved_events
                = (IF st = "approved" THEN {SavedRow(Str(S_u1), "approval")} ELSE {})
                  \cup (IF u2 = "none" THEN {} ELSE {SavedRow(Str(S_u2), "user")})
          /\ attended_events
                = IF u2 = "attended" /\ events[1].requires_attendance_check = True
                  THEN <<AttendedRow(Str(S_e1), Str(S_u2), Str(S_h1))>> ELSE <<>>
    /\ reqs = <<>>
    /\ clock = [day |-> 0, hour |-> 0]
    /\ listing = Null
    /\ expiry = <<>>
    /\ DatesIdle
    /\ AuthIdle
    /\ migration = [pc |-> "idle"]
    /\ extraction_jobs = <<>>
    /\ handlers = <<>>
    /\ loop = [pc |-> "idle"]

AttendanceFrame ==
    UNCHANGED <<responses, now, out, events, clock, listing, expiry, authVars,
                migration, jobVars, loop>>

\* req.params and req.body
EventIdPool == {Str(S_e1), Str(S_e9)}
ScannedUserPool == {Undefined, Str(S_u1), Str(S_u2)}
HostUserPool == {Undefined, Str(S_h1), Str(S_u2)}
RegistrationIdPool == 1..2

\* a request: its route and parameters, where its handler stands, its answer
\* once pc is "done", and what the handler has read so far
Request(route, eventId, user_id, host_user_id, registrationId, pc, status) ==
    [route |-> route, eventId |-> eventId, user_id |-> user_id,
     host_user_id |-> host_user_id, registrationId |-> registrationId,
     pc |-> pc, status |-> status,
     savedEvent |-> Null, registration |-> Null, existingAttendance |-> Null]

\* .single() and .maybeSingle(): data is the one matching row, and null when
\* no row matches, when several do, or when the query fails
SingleRow(table, ids, queryError) ==
    IF queryError \/ Cardinality(ids) # 1 THEN Null
    ELSE LET id == CHOOSE i \in ids : TRUE
         IN [k |-> "obj", id |-> id, row |-> table[id]]

RegistrationsOf(eventId, user_id) ==
    {i \in DOMAIN event_registrations :
        /\ event_registrations[i].event_id = eventId
        /\ event_registrations[i].user_id = user_id}

AttendancesOf(eventId, user_id) ==
    {i \in DOMAIN attended_events :
        /\ attended_events[i].event_id = eventId
        /\ attended_events[i].user_id = user_id}

SavedOf(eventId, user_id) ==
    {s \in saved_events : s.event_id = eventId /\ s.user_id = user_id}

\* lines 327-361: POST /:eventId/register arrives and looks for a
\* registration of the pair
RegisterCheck ==
    /\ Len(reqs) < MaxReqs
    /\ \E user_id \in {Undefined, Str(S_u1), Str(S_u2)}, queryError \in BOOLEAN :
          LET req(pc, status) == Request("register", Str(S_e1), user_id, Null, 0, pc, status)
              existing == SingleRow(event_registrations,
                                    RegistrationsOf(Str(S_e1), user_id), queryError)
          IN reqs' = Append(reqs,
                            IF ~Truthy(user_id) THEN req("done", 400)
                            ELSE IF Truthy(existing) THEN req("done", 400)
                            ELSE req("insert", 0))
    /\ UNCHANGED <<saved_events, event_registrations, attended_events>>
    /\ AttendanceFrame

\* lines 363-387: the insert of the pending registration
RegisterInsert(r) ==
    /\ reqs[r].route = "register"
    /\ reqs[r].pc = "insert"
    /\ \E error \in BOOLEAN :
          IF error
          THEN /\ reqs' = [reqs EXCEPT ![r].pc = "done", ![r].status = 500]
               /\ UNCHANGED event_registrations
          ELSE /\ reqs' = [reqs EXCEPT ![r].pc = "done", ![r].status = 201]
               /\ event_registrations'
                     = Append(event_registrations,
                              RegistrationRow(reqs[r].user_id, "pending"))
    /\ UNCHANGED <<saved_events, attended_events>>
    /\ AttendanceFrame

\* lines 473-497: PATCH /registrations/:registrationId/approve arrives and
\* fetches the registration
ApproveFetch ==
    /\ Len(reqs) < MaxReqs
    /\ \E registrationId \in RegistrationIdPool, fetchError \in BOOLEAN :
          LET req(pc, status) == Request("approve", Null, Null, Null, registrationId,
                                         pc, status)
              registration ==
                 SingleRow(event_registrations,
                           {registrationId} \cap DOMAIN event_registrations, fetchError)
          IN reqs' = Append(reqs,
                            IF ~Truthy(registration) THEN req("done", 404)
                            ELSE [req("update", 0) EXCEPT !.registration = registration])
    /\ UNCHANGED <<saved_events, event_registrations, attended_events>>
    /\ AttendanceFrame

\* lines 499-509: the update to 'approved'
ApproveUpdate(r) ==
    /\ reqs[r].route = "approve"
    /\ reqs[r].pc = "update"
    /\ \E error \in BOOLEAN :
          IF error \/ reqs[r].registrationId \notin DOMAIN event_registrations
          THEN /\ reqs' = [reqs EXCEPT ![r].pc = "done", ![r].status = 500]
               /\ UNCHANGED event_registrations
          ELSE /\ reqs' = [reqs EXCEPT ![r].pc = "save"]
               /\ event_registrations'
                     = [event_registrations EXCEPT
                          ![reqs[r].registrationId].status = "approved"]
    /\ UNCHANGED <<saved_events, attended_events>>
    /\ AttendanceFrame

\* lines 511-529: the insert into saved_events, whose error is logged at most
ApproveSave(r) ==
    /\ reqs[r].route = "approve"
    /\ reqs[r].pc = "save"
    /\ LET registration == reqs[r].registration.row
       IN \E savedError \in BOOLEAN :
             saved_events' =
                IF savedError \/ SavedOf(registration.event_id, registration.user_id) # {}
                THEN saved_events
                ELSE saved_events \cup {SavedRow(registration.user_id, "approval")}
    /\ reqs' = [reqs EXCEPT ![r].pc = "done", ![r].status = 200]
    /\ UNCHANGED <<event_registrations, attended_events>>
    /\ AttendanceFrame

\* lines 545-590: PATCH /registrations/:registrationId/reject
RejectUpdate ==
    /\ Len(reqs) < MaxReqs
    /\ \E registrationId \in RegistrationIdPool, error \in BOOLEAN :
          LET req(status) == Request("reject", Null, Null, Null, registrationId,
                                     "done", status)
          IN IF error \/ registrationId \notin DOMAIN event_registrations
             THEN /\ reqs' = Append(reqs, req(500))
                  /\ UNCHANGED event_registrations
             ELSE /\ reqs' = Append(reqs, req(200))
                  /\ event_registrations'
                        = [event_registrations EXCEPT ![registrationId].status = "rejected"]
    /\ UNCHANGED <<saved_events, attended_events>>
    /\ AttendanceFrame

\* .from('events').select(...).eq('id', eventId).single()
EventById(eventId, eventError) ==
    SingleRow(events, {i \in DOMAIN events : events[i].id = eventId}, eventError)

\* lines 643-701: POST /:eventId/scan-attendance arrives; the body and the
\* event are checked
ScanEvent ==
    /\ Len(reqs) < MaxReqs
    /\ \E eventId \in EventIdPool, scanned_user_id \in ScannedUserPool,
          host_user_id \in HostUserPool, eventError \in BOOLEAN :
          LET req(pc, status) == Request("scan", eventId, scanned_user_id, host_user_id,
                                         0, pc, status)
              event == EventById(eventId, eventError)
          IN reqs' = Append(reqs,
                            IF ~Truthy(scanned_user_id) THEN req("done", 400)
                            ELSE IF ~Truthy(host_user_id) THEN req("done", 400)
                            ELSE IF ~Truthy(event) THEN req("done", 404)
                            ELSE IF event.row.user_id # host_user_id THEN req("done", 403)
                            ELSE IF ~Truthy(event.row.requires_attendance_check)
                            THEN req("done", 400)
                            ELSE req("saved", 0))
    /\ UNCHANGED <<saved_events, event_registrations, attended_events>>
    /\ AttendanceFrame

\* lines 703-709: the saved_events row of the scanned user
ScanSaved(r) ==
    /\ reqs[r].route = "scan"
    /\ reqs[r].pc = "saved"
    /\ \E queryError \in BOOLEAN :
          reqs' = [reqs EXCEPT
                     ![r].pc = "registration",
                     ![r].savedEvent =
                        IF queryError \/ SavedOf(reqs[r].eventId, reqs[r].user_id) = {}
                        THEN Null ELSE [k |-> "obj"]]
    /\ UNCHANGED <<saved_events, event_registrations, attended_events>>
    /\ AttendanceFrame

\* line 735: savedEvent || (registration && registration.status === 'approved')
IsConfirmed(savedEvent, registration) ==
    Truthy(savedEvent) \/ (Truthy(registration) /\ registration.row.status = "approved")

\* mutant: a user is refused only when no row at all was found
Refused_OnlyUnknown(savedEvent, registration) ==
    ~Truthy(savedEvent) /\ ~Truthy(registration)

\* lines 719-742: the answers 'Usuario no existe', 'No pagado' and 'Usuario
\* no confirmado'
Refused(savedEvent, registration) ==
    \/ ~Truthy(savedEvent) /\ ~Truthy(registration)
    \/ Truthy(registration) /\ registration.row.status # "approved" /\ ~Truthy(savedEvent)
    \/ ~IsConfirmed(savedEvent, registration)

\* lines 711-742: the registration of the scanned user, and the three checks
ScanRegistration(r) ==
    /\ reqs[r].route = "scan"
    /\ reqs[r].pc = "registration"
    /\ \E queryError \in BOOLEAN :
          LET registration ==
                 SingleRow(event_registrations,
                           RegistrationsOf(reqs[r].eventId, reqs[r].user_id), queryError)
          IN reqs' = [reqs EXCEPT
                        ![r].registration = registration,
                        ![r].pc = IF Refused(reqs[r].savedEvent, registration)
                                  THEN "done" ELSE "attended",
                        ![r].status = IF Refused(reqs[r].savedEvent, registration)
                                      THEN 400 ELSE 0]
    /\ UNCHANGED <<saved_events, event_registrations, attended_events>>
    /\ AttendanceFrame

\* lines 744-750: the attended_events row of the scanned user
ScanAttended(r) ==
    /\ reqs[r].route = "scan"
    /\ reqs[r].pc = "attended"
    /\ \E queryError \in BOOLEAN :
          reqs' = [reqs EXCEPT
                     ![r].pc = "write",
                     ![r].existingAttendance =
                        SingleRow(attended_events,
                                  AttendancesOf(reqs[r].eventId, reqs[r].user_id),
                                  queryError)]
    /\ UNCHANGED <<saved_events, event_registrations, attended_events>>
    /\ AttendanceFrame

\* lines 752-802: the update of the row that was found, or the insert
ScanWrite(r) ==
    /\ reqs[r].route = "scan"
    /\ reqs[r].pc = "write"
    /\ \E error \in BOOLEAN :
          IF error
          THEN /\ reqs' = [reqs EXCEPT ![r].pc = "done", ![r].status = 500]
               /\ UNCHANGED attended_events
          ELSE IF Truthy(reqs[r].existingAttendance)
          THEN /\ reqs' = [reqs EXCEPT ![r].pc = "done", ![r].status = 200]
               /\ attended_events'
                     = [attended_events EXCEPT
                          ![reqs[r].existingAttendance.id] =
                              [@ EXCEPT !.scanned_by_host = True,
                                        !.scanned_by_user_id = reqs[r].host_user_id]]
          ELSE /\ reqs' = [reqs EXCEPT ![r].pc = "done", ![r].status = 201]
               /\ attended_events'
                     = Append(attended_events,
                              AttendedRow(reqs[r].eventId, reqs[r].user_id,
                                          reqs[r].host_user_id))
    /\ UNCHANGED <<saved_events, event_registrations>>
    /\ AttendanceFrame

NextAttendance ==
    \/ RegisterCheck
    \/ \E r \in DOMAIN reqs : RegisterInsert(r)
    \/ ApproveFetch
    \/ \E r \in DOMAIN reqs : ApproveUpdate(r)
    \/ \E r \in DOMAIN reqs : ApproveSave(r)
    \/ RejectUpdate
    \/ ScanEvent
    \/ \E r \in DOMAIN reqs : ScanSaved(r)
    \/ \E r \in DOMAIN reqs : ScanRegistration(r)
    \/ \E r \in DOMAIN reqs : ScanAttended(r)
    \/ \E r \in DOMAIN reqs : ScanWrite(r)

SpecAttendance == InitAttendance /\ [][NextAttendance]_vars

\* C21 - No duplicate attendance, as claimed: after any interleaving of
\* scan-attendance requests attended_events holds at most one record per
\* (event, user).
C21_NoDuplicateAttendance ==
    \A i, j \in DOMAIN attended_events :
        (/\ attended_events[i].event_id = attended_events[j].event_id
         /\ attended_events[i].user_id = attended_events[j].user_id)
        => i = j

\* C28 - Registration uniqueness, as claimed: after any interleaving of
\* register requests event_registrations holds at most one record per
\* (event_id, user_id).
C28_RegistrationUniqueness ==
    \A i, j \in DOMAIN event_registrations :
        (/\ event_registrations[i].event_id = event_registrations[j].event_id
         /\ event_registrations[i].user_id = event_registrations[j].user_id)
        => i = j

\* the request r is a scan that gets its answer in this step
ScanAnswered(r) ==
    /\ r \in DOMAIN reqs'
    /\ reqs'[r].route = "scan"
    /\ reqs'[r].pc = "done"
    /\ r \in DOMAIN reqs => reqs[r].pc # "done"

\* the event of the request exists, is hosted by host_user_id and requires
\* the attendance check
HostGuards(q) ==
    \E i \in DOMAIN events :
        /\ events[i].id = q.eventId
        /\ events[i].user_id = q.host_user_id
        /\ events[i].requires_attendance_check = True

\* the scanned user has a saved_events row or an approved registration
ConfirmedInTables(q) ==
    \/ SavedOf(q.eventId, q.user_id) # {}
    \/ \E i \in RegistrationsOf(q.eventId, q.user_id) :
          event_registrations[i].status = "approved"

\* C22 - Scan-attendance guards: attended_events is written only by a scan
\* whose event exists, whose host_user_id is the event's user_id, whose event
\* has requires_attendance_check true and whose scanned user was found with a
\* saved_events row or an approved registration; a scan that fails one of
\* these checks is answered 404, 403 or 400, and every scan answered
\* otherwise than 200/201 leaves attended_events unchanged.
C22_ScanGuards ==
    [][/\ attended_events' # attended_events
          => \E r \in DOMAIN reqs :
                /\ ScanAnswered(r)
                /\ reqs'[r].status \in {200, 201}
                /\ HostGuards(reqs[r])
                /\ IsConfirmed(reqs[r].savedEvent, reqs[r].registration)
       /\ \A r \in DOMAIN reqs' :
             /\ (/\ r \in DOMAIN reqs
                 /\ reqs[r].route = "scan"
                 /\ reqs[r].pc = "registration"
                 /\ reqs'[r].pc = "attended")
                => ConfirmedInTables(reqs[r])
             /\ (r \notin DOMAIN reqs /\ reqs'[r].route = "scan")
                => /\ reqs'[r].pc \in {"saved", "done"}
                   /\ reqs'[r].pc = "saved"
                      => HostGuards(reqs'[r]) /\ Truthy(reqs'[r].user_id)
                   /\ reqs'[r].pc = "done" => reqs'[r].status \in {400, 403, 404}
             /\ (ScanAnswered(r) /\ reqs'[r].status \notin {200, 201})
                => /\ attended_events' = attended_events
                   /\ reqs'[r].status \in {400, 403, 404, 500}
                   /\ reqs'[r].status = 500 => reqs[r].pc = "write"]_vars

\* a scan of a confirmed user was answered 201 and a scan by somebody who is
\* not the host was answered 403
C22_Witness ==
    /\ \E r \in DOMAIN reqs :
          /\ reqs[r].route = "scan"
          /\ reqs[r].pc = "done"
          /\ reqs[r].status = 201
          /\ AttendancesOf(reqs[r].eventId, reqs[r].user_id) # {}
    /\ \E r \in DOMAIN reqs :
          /\ reqs[r].route = "scan"
          /\ reqs[r].status = 403

\* a scan of a user with a pending registration was answered 400
C22_WitnessRefused ==
    \E r \in DOMAIN reqs :
        /\ reqs[r].route = "scan"
        /\ reqs[r].pc = "done"
        /\ reqs[r].status = 400
        /\ Truthy(reqs[r].registration)
        /\ reqs[r].registration.row.status = "pending"
        /\ attended_events = <<>>

\* the registrations of the pair are rejected and no saved_events row of the
\* pair was made by the user
RejectedUnconfirmed(eventId, user_id) ==
    /\ RegistrationsOf(eventId, user_id) # {}
    /\ \A i \in RegistrationsOf(eventId, user_id) :
          event_registrations[i].status = "rejected"
    /\ \A s \in SavedOf(eventId, user_id) : s.via = "approval"

\* C29 - Rejection revokes confirmation, as claimed: a scan of a user whose
\* registration is rejected, and who has no saved_events row other than one
\* made by an approval, is not accepted.
C29_RejectionRevokes ==
    [][\A r \in DOMAIN reqs :
          (ScanAnswered(r) /\ reqs'[r].status \in {200, 201})
          => ~RejectedUnconfirmed(reqs[r].eventId, reqs[r].user_id)]_vars

-----------------------------------------------------------------------------
(* events.js lines 821-945: GET /api/events/:eventId/attendance-list.  No   *)
(* other route runs meanwhile, so the five queries of the handler read the *)
(* same tables and the handler is one step.  The profiles of the users     *)
(* (name, email, avatar) are left out of the answer.                       *)

S_form == <<"f", "o", "r", "m">>

\* the event e1 with its price and its registration form
ListEvent(price, registration_form_url) ==
    [id |-> Str(S_e1), user_id |-> Str(S_h1), requires_attendance_check |-> True,
     price |-> price, registration_form_url |-> registration_form_url]

\* parseFloat of a number
ParseFloat(v) == IF v.k = "num" THEN v ELSE NaN

\* line 845
HasPayments(event) ==
    (Truthy(event.price) /\ JsLt(Num(0), ParseFloat(event.price)))
    \/ Truthy(event.registration_form_url)

\* the tables: u1 and u2 with or without a registration, with or without the
\* event saved, scanned or not when confirmed
InitList ==
    /\ events \in {<<ListEvent(price, url)>> :
                      price \in {Null, Num(0), Num(10)}, url \in {Null, Str(S_form)}}
    /\ \E st1 \in {"none", "pending", "approved", "rejected"},
          st2 \in {"none", "approved"},
          saved \in SUBSET {Str(S_u1), Str(S_u2)},
          attended \in SUBSET {Str(S_u1), Str(S_u2)} :
          /\ event_registrations
                = (IF st1 = "none" THEN <<>> ELSE <<RegistrationRow(Str(S_u1), st1)>>)
                  \o (IF st2 = "none" THEN <<>> ELSE <<RegistrationRow(Str(S_u2), st2)>>)
          /\ saved_events = {SavedRow(u, "user") : u \in saved}
          /\ Str(S_u1) \in attended => Str(S_u1) \in saved \/ st1 = "approved"
          /\ Str(S_u2) \in attended => Str(S_u2) \in saved \/ st2 = "approved"
          /\ attended_events
                = [i \in 1..Cardinality(attended) |->
                      AttendedRow(Str(S_e1),
                                  IF Cardinality(attended) = 2 /\ i = 2 THEN Str(S_u2)
                                  ELSE CHOOSE u \in attended :
                                          Cardinality(attended) = 2 => u = Str(S_u1),
                                  Str(S_h1))]
    /\ reqs = <<>>
    /\ clock = [day |-> 0, hour |-> 0]
    /\ listing = Null
    /\ expiry = <<>>
    /\ DatesIdle
    /\ AuthIdle
    /\ migration = [pc |-> "idle"]
    /\ extraction_jobs = <<>>
    /\ handlers = <<>>
    /\ loop = [pc |-> "idle"]

\* the elements of a set, in some order
SetToSeq(S) ==
    CHOOSE q \in [1..Cardinality(S) -> S] : \A a, b \in DOMAIN q : a # b => q[a] # q[b]

\* [...new Set(list)]: the first occurrence of every element
Uniq(list) ==
    LET first == {i \in DOMAIN list : \A j \in 1..(i - 1) : list[j] # list[i]}
    IN [k \in 1..Cardinality(first) |-> list[Ascending(first)[k]]]

\* lines 869-930: the attendees built from the rows of the event
Attendees(event, savedEvents, registrations, attendedEvents) ==
    LET userIds(rows) == [i \in DOMAIN rows |-> rows[i].user_id]
        savedUserIds == userIds(savedEvents)
        approvedRegUserIds ==
            userIds(SelectSeq(registrations, LAMBDA r : r.status = "approved"))
        confirmedUserIds ==
            IF HasPayments(event) THEN approvedRegUserIds
            ELSE Uniq(savedUserIds \o approvedRegUserIds)
        attendee(userId) ==
            LET attendance == SelectSeq(attendedEvents, LAMBDA ae : ae.user_id = userId)
                registration == SelectSeq(registrations, LAMBDA r : r.user_id = userId)
            IN [user_id |-> userId, confirmed |-> TRUE,
                attended |-> attendance # <<>>,
                registration_status |-> IF registration = <<>> THEN Null
                                        ELSE Str(<<registration[1].status>>)]
    IN [i \in DOMAIN confirmedUserIds |-> attendee(confirmedUserIds[i])]

\* router.get('/:eventId/attendance-list'), lines 821-945; any of the queries
\* may report an error
GetAttendanceList ==
    /\ Len(reqs) < MaxReqs
    /\ \E eventId \in EventIdPool, queryError \in BOOLEAN :
          LET event == EventById(eventId, FALSE)
              savedEvents == SetToSeq({s \in saved_events : s.event_id = eventId})
              registrations ==
                  SelectSeq(event_registrations, LAMBDA r : r.event_id = eventId)
              attendedEvents ==
                  SelectSeq(attended_events, LAMBDA ae : ae.event_id = eventId)
          IN reqs' = Append(reqs,
                IF queryError \/ ~Truthy(event)
                THEN [route |-> "attendance-list", eventId |-> eventId,
                      pc |-> "done", status |-> 500, attendees |-> <<>>]
                ELSE [route |-> "attendance-list", eventId |-> eventId,
                      pc |-> "done", status |-> 200,
                      attendees |-> Attendees(event.row, savedEvents, registrations,
                                              attendedEvents)])
    /\ UNCHANGED <<saved_events, event_registrations, attended_events>>
    /\ AttendanceFrame

NextList == GetAttendanceList

SpecList == InitList /\ [][NextList]_vars

\* the users confirmed for the event: with a saved_events row or an approved
\* registration
ConfirmedUsers(eventId) ==
    {s.user_id : s \in {x \in saved_events : x.event_id = eventId}}
    \cup {event_registrations[i].user_id :
             i \in {j \in DOMAIN event_registrations :
                       /\ event_registrations[j].event_id = eventId
                       /\ event_registrations[j].status = "approved"}}

\* C23 - Attendance list contents, as claimed: the list holds every user with
\* a saved_events row and every user with an approved registration, each
\* exactly once, with attended true exactly for the users that have an
\* attended_events record.
C23_AttendanceList ==
    \A r \in DOMAIN reqs :
        (reqs[r].route = "attendance-list" /\ reqs[r].status = 200)
        => LET attendees == reqs[r].attendees
           IN /\ {attendees[i].user_id : i \in DOMAIN attendees}
                 = ConfirmedUsers(reqs[r].eventId)
              /\ Len(attendees) = Cardinality(ConfirmedUsers(reqs[r].eventId))
              /\ \A i \in DOMAIN attendees :
                    attendees[i].attended
                    <=> AttendancesOf(reqs[r].eventId, attendees[i].user_id) # {}

====
